---- MODULE Spec2Model ----
(***************************************************************************)
(* Newscope: feed fetcher, adaptive polling scheduler, manual fetch        *)
(* trigger and article storage, modelled from the Rust sources.            *)
(*                                                                         *)
(*   Spec       the scheduler loop (run_worker) and the task spawned by    *)
(*              POST /fetch (trigger_fetch), both calling                  *)
(*              store_feed_items, against one SQLite database              *)
(*   SpecFeeds  the scheduler loop and POST /feeds (create_feed)           *)
(*   SpecStore  concurrent calls of store_feed_items                       *)
(*   SpecFetch  the retry loop of fetch_and_parse_feed, one loop           *)
(*              iteration per step                                         *)
(*                                                                         *)
(* Time is counted in minutes; a fetch with its retries and a store take   *)
(* less than that, so the clock moves while the worker sleeps.  Every      *)
(* .await of the Rust code is a point where another task may run, so each  *)
(* database statement is one step.                                         *)
(***************************************************************************)
EXTENDS Integers, Sequences, FiniteSets, TLC

\* ------------------------------------------------------------------------
\* Bounds of the model
\* ------------------------------------------------------------------------
MaxTicks == 2

MaxManual == 1

MaxEntries == 2

MaxCreate == 1

MaxCalls == 2

\* Calls of RemoteLlmProvider::generate in SpecRemote.
MaxGenerate == 2

\* Calls of extract_json_from_text in SpecExtract.
MaxExtract == 1

\* Calls of generate_press_review in SpecScore.
MaxReviews == 1

\* Calls of update_user_vector_from_interaction in SpecVector.
MaxUpdates == 1

\* POST /feeds requests handled in SpecSubs.
MaxPosts == 3

\* Calls of personalize_for_users in SpecPers.
MaxRuns == 2

\* POST /process-pending requests in SpecProc.
MaxPending == 1

\* Statements and calls that fail in SpecProc.
MaxFaults == 1

\* ------------------------------------------------------------------------
\* Program constants
\* ------------------------------------------------------------------------
max_retries == 3

MinInterval == 15

MaxInterval == 1440

DefaultInterval == 60

NULL == -1

\* ------------------------------------------------------------------------
\* fetch_and_parse_feed (ingestion.rs)
\* ------------------------------------------------------------------------
\* HTTP status codes the server may answer with.
Statuses == {200, 301, 404, 429, 500, 503}

\* What can be read from a 2xx response: a well-formed feed, bytes that
\* cannot be read, or bytes that feed_rs cannot parse.
Bodies == {"feed", "unreadable", "unparsable"}

is_success(status) == status >= 200 /\ status <= 299

is_server_error(status) == status >= 500 /\ status <= 599

TOO_MANY_REQUESTS == 429

\* Outcome of one client.get(url).send(): a transport error or a response.
Responses ==
    {[kind |-> "network", status |-> 0, body |-> "none"]}
    \cup {[kind |-> "http", status |-> s, body |-> b] :
             s \in {x \in Statuses : is_success(x)}, b \in Bodies}
    \cup {[kind |-> "http", status |-> s, body |-> "none"] :
             s \in {x \in Statuses : ~is_success(x)}}

NoError == [kind |-> "none", status |-> 0]

FetchError(kind, status) == [kind |-> kind, status |-> status]

\* Local state of one call: the attempt the loop is about to run, last_error,
\* the backoff delays slept so far (seconds) and the value returned, if any.
FetchStart ==
    [attempt |-> 1, last_error |-> NoError, slept |-> << >>,
     ret |-> "running", err |-> NoError]

\* Variant: the exponent counts from the attempt, not from the retry.
Backoff_FromTwo(attempt) == 2 ^ (attempt - 1)

Backoff(attempt) == 2 ^ (attempt - 2)

RetryBranch(st, slept, e) ==
    [st EXCEPT !.attempt = @ + 1, !.slept = slept, !.last_error = e]

ReturnErr(st, slept, e) ==
    [st EXCEPT !.attempt = @ + 1, !.slept = slept, !.ret = "err", !.err = e]

ReturnOk(st, slept) ==
    [st EXCEPT !.attempt = @ + 1, !.slept = slept, !.ret = "ok"]

\* Variant: every non-2xx status is retried.
FetchIteration_RetryAll(st, resp) ==
    LET slept == IF st.attempt > 1
                 THEN Append(st.slept, Backoff(st.attempt))
                 ELSE st.slept
    IN  IF resp.kind = "http"
        THEN IF is_success(resp.status)
             THEN IF resp.body = "unreadable"
                  THEN ReturnErr(st, slept, FetchError("read_body", resp.status))
                  ELSE IF resp.body = "unparsable"
                  THEN ReturnErr(st, slept, FetchError("parse", resp.status))
                  ELSE ReturnOk(st, slept)
             ELSE RetryBranch(st, slept, FetchError("server_error", resp.status))
        ELSE RetryBranch(st, slept, FetchError("network", 0))

\* One iteration of `for attempt in 1..=max_retries` on response resp.
FetchIteration(st, resp) ==
    LET slept == IF st.attempt > 1
                 THEN Append(st.slept, Backoff(st.attempt))
                 ELSE st.slept
    IN  IF resp.kind = "http"
        THEN IF is_success(resp.status)
             THEN IF resp.body = "unreadable"
                  THEN ReturnErr(st, slept, FetchError("read_body", resp.status))
                  ELSE IF resp.body = "unparsable"
                  THEN ReturnErr(st, slept, FetchError("parse", resp.status))
                  ELSE ReturnOk(st, slept)
             ELSE IF is_server_error(resp.status)
             THEN RetryBranch(st, slept, FetchError("server_error", resp.status))
             ELSE IF resp.status = TOO_MANY_REQUESTS
             THEN RetryBranch(st, slept, FetchError("rate_limited", resp.status))
             ELSE ReturnErr(st, slept, FetchError("status", resp.status))
        ELSE RetryBranch(st, slept, FetchError("network", 0))

\* The statement after the loop: Err(last_error.unwrap_or_else(..)).
FetchExhausted(st) ==
    [st EXCEPT !.ret = "err",
               !.err = IF st.last_error = NoError
                       THEN FetchError("unknown", 0)
                       ELSE st.last_error]

LoopRunning(st) == st.ret = "running" /\ st.attempt <= max_retries

LoopOver(st) == st.ret = "running" /\ st.attempt > max_retries

\* The whole call on the responses the server gives to attempts 1..3.
RECURSIVE FetchLoop(_, _)
FetchLoop(st, resps) ==
    IF LoopRunning(st) THEN FetchLoop(FetchIteration(st, resps[st.attempt]), resps)
    ELSE IF LoopOver(st) THEN FetchExhausted(st)
    ELSE st

fetch_and_parse_feed(resps) == FetchLoop(FetchStart, resps)

ResponseSeqs == [1..max_retries -> Responses]

\* What a caller can observe of a call: "ok" or "err".
FetchOutcomes == {fetch_and_parse_feed(r).ret : r \in ResponseSeqs}

\* ------------------------------------------------------------------------
\* State
\* ------------------------------------------------------------------------
VARIABLES
    now,                  \* Utc::now(), in minutes
    feeds,                \* table feeds: row id = index
    subscriptions,        \* table subscriptions: row id = index
    articles,             \* table articles: canonical_url, row id = index
    article_occurrences,  \* table article_occurrences: rows per (article_id, feed_id)
    worker,               \* run_worker: position and locals
    manual,               \* the task spawned by trigger_fetch: position and locals
    store,                \* store_feed_items: position and locals, per calling task
    cf,                   \* create_feed: position and locals, per request in flight
    budget,               \* remaining ticks, POST /fetch, POST /feeds, store calls
    tick,                 \* record of the scheduler tick in progress
    lastCommit,           \* last UPDATE feeds ... issued by each task
    fst,                  \* SpecFetch: locals of the fetch_and_parse_feed call
    fresp,                \* SpecFetch: responses received by that call
    user_article_summaries,  \* table: row per (user_id, article_id), or none
    user_article_views,   \* table: rows <<user_id, article_id, session_id>>
    ws,                   \* chat_websocket: digest task of each new session
    pz,                   \* personalize_for_users: position and locals
    processing_jobs,      \* table processing_jobs: row id = index
    processing_status,    \* articles.processing_status, per article id
    article_summaries,    \* table article_summaries: row per article, or none
    proc,                 \* batch_process_articles: position and locals, per batch
    chat_messages,        \* table chat_messages: row id = index
    ratings,              \* user_article_views.rating per (user_id, article_id)
    vector_updates,       \* calls of update_user_vector_from_interaction
    chan,                 \* chat_websocket: messages sent on tx, in send order
    fw,                   \* chat_websocket: the task forwarding rx to ws_sink
    chat,                 \* chat_websocket: the connection's future
    dg,                   \* chat_websocket: the spawned digest task
    pr,                   \* generate_press_review: position and locals
    sd,                   \* shutdown_notify and the worker's select!
    rp,                   \* RemoteLlmProvider::generate: position and locals
    ej,                   \* extract_json_from_text: the last call's text and result
    sc,                   \* generate_press_review: two scored candidates
    uv,                   \* update_user_vector_from_interaction: vec_users row, inputs
    emb                   \* process_missing_embeddings: vec_articles and the tasks

dbVars == <<feeds, subscriptions, articles, article_occurrences>>

taskVars == <<worker, manual, store, cf>>

histVars == <<budget, tick, lastCommit>>

fetchVars == <<fst, fresp>>

pipeVars == <<user_article_summaries, user_article_views, ws, pz,
              processing_jobs, processing_status, article_summaries, proc>>

libVars == <<rp, ej, sc, uv, emb>>

connVars == <<chat_messages, ratings, vector_updates, chan, fw, chat, dg, pr, sd,
              libVars>>

vars == <<now, dbVars, taskVars, histVars, fetchVars, pipeVars, connVars>>

Tasks == {"worker", "manual"}

Users == {1, 2}

\* Requests the server handles at the same time.
Requests == {1, 2}

FeedUrls == {"fx", "fy"}

ArticleUrls == {"a", "b"}

MaxFeeds == Cardinality(FeedUrls)

\* Entries of a fetched feed, each reduced to its first link ("" = no link).
EntryLists ==
    UNION {[1..n -> ArticleUrls \cup {""}] : n \in 0..MaxEntries}

\* Intervals and flags of the feed row that exists at start.
InitIntervals == {MinInterval, DefaultInterval, MaxInterval}

Range(s) == {s[i] : i \in DOMAIN s}

Min(a, b) == IF a <= b THEN a ELSE b

Max(a, b) == IF a >= b THEN a ELSE b

\* ------------------------------------------------------------------------
\* Tables (ensure_schema, server.rs)
\* ------------------------------------------------------------------------
\* SELECT id FROM feeds WHERE url = ?  (0 when there is no such row)
FeedIdByUrl(url) ==
    IF \E i \in DOMAIN feeds : feeds[i].url = url
    THEN CHOOSE i \in DOMAIN feeds : feeds[i].url = url
    ELSE 0

\* SELECT id FROM articles WHERE canonical_url = ?  (0 when there is no row)
ArticleIdByUrl(url) ==
    IF \E i \in DOMAIN articles : articles[i] = url
    THEN CHOOSE i \in DOMAIN articles : articles[i] = url
    ELSE 0

\* SELECT id FROM subscriptions WHERE user_id = ? AND feed_id = ?
SubscriptionId(u, f) ==
    IF \E i \in DOMAIN subscriptions :
          subscriptions[i].user_id = u /\ subscriptions[i].feed_id = f
    THEN CHOOSE i \in DOMAIN subscriptions :
          subscriptions[i].user_id = u /\ subscriptions[i].feed_id = f
    ELSE 0

\* feeds.url TEXT NOT NULL UNIQUE
FeedsUrlUnique(url) == FeedIdByUrl(url) = 0

\* Variant: canonical_url declared without UNIQUE.
ArticlesUrlUnique_None(url) == TRUE

\* articles.canonical_url TEXT NOT NULL UNIQUE
ArticlesUrlUnique(url) == ArticleIdByUrl(url) = 0

\* Variant: subscriptions declared without UNIQUE(user_id, feed_id).
SubscriptionsUnique_None(u, f) == TRUE

\* subscriptions: UNIQUE(user_id, feed_id)
SubscriptionsUnique(u, f) == SubscriptionId(u, f) = 0

\* article_occurrences declares no UNIQUE constraint and no unique index, so
\* no row ever conflicts with the row being inserted.
OccurrencesUnique(a, f) == TRUE

\* INSERT INTO feeds (url, title, next_poll_at) VALUES (?, ?, NULL), with the
\* column defaults poll_interval_minutes 60 and adaptive_scheduling TRUE.
NewFeedRow(url) ==
    [url |-> url, next_poll_at |-> NULL,
     poll_interval_minutes |-> DefaultInterval, adaptive_scheduling |-> TRUE]

ArticleIds == 1..Cardinality(ArticleUrls)

OccPairs == ArticleIds \X (1..MaxFeeds)

\* Sessions opened on the websocket, each with its own digest task.
Sessions == {1, 2}

\* user_article_summaries: absent row, and the keys of the table.
NoSummary ==
    [present |-> FALSE, relevance_score |-> 0, is_relevant |-> FALSE,
     language |-> "", complexity_level |-> ""]

SummaryKeys == Users \X ArticleIds

\* get_user_profile: user 1 has a user_profiles row, user 2 has none and
\* gets the COALESCE defaults 'en' and 'medium'.
Profile(u) ==
    IF u = 1 THEN [language |-> "fr", complexity_level |-> "simple"]
    ELSE [language |-> "en", complexity_level |-> "medium"]

\* ------------------------------------------------------------------------
\* Initial state
\* ------------------------------------------------------------------------
StoreIdle ==
    [pc |-> "idle", feed_id |-> 0, entries |-> << >>, article_id |-> 0,
     new_article_ids |-> << >>]

ManualIdle ==
    [pc |-> "idle", feed_id |-> 0, interval |-> 0, adaptive |-> FALSE,
     fetch_success |-> FALSE]

\* prior: the subscription of the request's user to the request's URL that
\* existed when the request was received (0 when there was none).
CfIdle ==
    [pc |-> "idle", user_id |-> 0, url |-> "", feed_id |-> 0, prior |-> 0,
     reply |-> [status |-> "none", id |-> 0, subscription_id |-> 0]]

\* What the last UPDATE feeds of a task wrote: the fetch outcome it followed,
\* the interval and flag the task had read, the number of articles its store
\* call inserted, the interval written and next_poll_at - now as written.
NoCommit ==
    [outcome |-> "none", prev |-> 0, adaptive |-> FALSE,
     inserted |-> 0, interval |-> 0, offset |-> 0]

\* The tick in progress: its `now`, next_poll_at of every feed as the SELECT
\* saw it, the feeds fetched so far and the feeds updated so far.
NoTick == [now |-> 0, snapshot |-> << >>, fetched |-> {}, updated |-> << >>]

\* personalize_for_users: the users still to handle, the count it returns,
\* and the record of every loop iteration of every call so far.
PzIdle ==
    [pc |-> "idle", article_id |-> 0, fetched |-> << >>, users |-> << >>,
     personalized_count |-> 0, log |-> << >>, runs |-> 0]

\* Tasks that run batch_process_articles: the ones spawned by a scheduler
\* tick and by a manual fetch, and the one of POST /process-pending.
Batches == {"worker", "manual", "pending"}

\* What the last process_single_article call of a batch returned: its job
\* (0 when none was created), how the summarization LLM call went, and
\* whether an UPDATE of the job's own status failed.
NoCall ==
    [job_id |-> 0, article_id |-> 0, ret |-> "none", llm |-> "none",
     job_error |-> FALSE]

ProcIdle ==
    [pc |-> "idle", ids |-> << >>, article_id |-> 0, job_id |-> 0,
     llm |-> "none", summary |-> "none", failed |-> FALSE, posts |-> 0,
     last |-> NoCall, input |-> << >>, attempted |-> << >>,
     processed_count |-> 0]

\* Tables and tasks of the article pipeline, before any article is processed.
InitPipeline ==
    /\ pz = PzIdle
    /\ processing_jobs = << >>
    /\ processing_status = [a \in ArticleIds |-> "pending"]
    /\ article_summaries = [a \in ArticleIds |-> "none"]
    /\ proc = [b \in Batches |-> ProcIdle]

\* When a part of an HTTP response reaches the client, in seconds after the
\* request was sent, if it ever does.
NoArrival == [arrives |-> FALSE, t |-> 0]

\* What generate returned: Ok(LlmResponse) or Err with its message; status
\* is the status code the message of an API error carries.
NoResult == [kind |-> "none", msg |-> "", status |-> 0]

WsIdle == [pc |-> "idle", user_id |-> 0, articles |-> << >>, sent |-> << >>]

\* The forwarding task waits on rx; nothing was written to ws_sink.
FwIdle == [pc |-> "recv", next |-> 1, written |-> << >>]

\* The connection before get_session_with_messages.
ChatIdle ==
    [pc |-> "connect", user_id |-> 0, provider |-> TRUE, language |-> "en",
     loaded |-> << >>, received |-> 0,
     cur |-> [type |-> "none", article_id |-> 0, rating |-> 0],
     response |-> "none", llm |-> "none", turns |-> << >>]

\* The digest task, not spawned.
DgIdle ==
    [pc |-> "off", user_id |-> 0, lang |-> "en", rows |-> << >>, replies |-> {},
     context |-> << >>, log |-> << >>]

\* generate_press_review, not called.
PrIdle ==
    [pc |-> "idle", duration_seconds |-> 0, reading_speed |-> 0, scored |-> << >>,
     target_words |-> 0, current_words |-> 0, article_count |-> 0,
     ids |-> << >>, digest |-> << >>]

\* The server runs; shutdown_notify was not signalled.
SdIdle == [raised |-> FALSE, main |-> "serving"]

\* No connection, no press review, no shutdown.
\* No generate call was made.
RpIdle ==
    [pc |-> "idle", timeout |-> 0, head |-> NoArrival, body |-> NoArrival,
     status |-> 0, result |-> NoResult, requests |-> 0, calls |-> 0]

\* Option<String>, or the panic that ends the call instead.
None == [kind |-> "none", value |-> << >>]

Some(value) == [kind |-> "some", value |-> value]

Panic == [kind |-> "panic", value |-> << >>]

\* Embedding tasks that overlap.
EmbTasks == {1, 2}

\* No embedding task was spawned; no article has a vector.  Whether
\* vec_articles accepts a second row for an article is not known before an
\* insert meets one.
EmbIdle ==
    [vec_articles |-> [a \in ArticleIds |-> 0],
     embedded |-> [a \in ArticleIds |-> 0],
     unique |-> "unknown",
     tasks |-> [t \in EmbTasks |->
                  [pc |-> "idle", rows |-> << >>, count |-> 0, ret |-> "none"]]]

InitLib ==
    /\ rp = RpIdle
    /\ ej = [text |-> << >>, result |-> None, calls |-> 0]
    /\ sc = [rows |-> << >>, t_half |-> 0, scored |-> << >>, calls |-> 0]
    /\ uv = [user_vec |-> None, article_vec |-> None, weight |-> 0,
             vec_users |-> None, calls |-> 0]
    /\ emb = EmbIdle

InitConn ==
    /\ chat_messages = << >>
    /\ ratings = [k \in SummaryKeys |-> 0]
    /\ vector_updates = << >>
    /\ chan = << >>
    /\ fw = FwIdle
    /\ chat = ChatIdle
    /\ dg = DgIdle
    /\ pr = PrIdle
    /\ sd = SdIdle
    /\ InitLib

InitCommon ==
    /\ now = 0
    /\ InitConn
    /\ user_article_summaries = [k \in SummaryKeys |-> NoSummary]
    /\ user_article_views = {}
    /\ ws = [s \in Sessions |-> WsIdle]
    /\ InitPipeline
    /\ subscriptions = << [user_id |-> 1, feed_id |-> 1] >>
    /\ articles = << >>
    /\ article_occurrences = [p \in OccPairs |-> 0]
    /\ worker = [pc |-> "select", rows |-> << >>]
    /\ manual = ManualIdle
    /\ store = [t \in Tasks |-> StoreIdle]
    /\ cf = [r \in Requests |-> CfIdle]
    /\ tick = NoTick
    /\ lastCommit = [t \in Tasks |-> NoCommit]
    /\ fst = FetchStart
    /\ fresp = << >>

Budget(ticks, manuals, creates, calls) ==
    [ticks |-> ticks, manual |-> manuals, create |-> creates, calls |-> calls,
     faults |-> 0]

Init ==
    /\ InitCommon
    /\ \E i \in InitIntervals, a \in BOOLEAN :
          feeds = << [url |-> "fx", next_poll_at |-> NULL,
                      poll_interval_minutes |-> i, adaptive_scheduling |-> a] >>
    /\ budget = Budget(MaxTicks, MaxManual, 0, 0)

\* ------------------------------------------------------------------------
\* store_feed_items (storage.rs), called by the worker and by the manual task
\* ------------------------------------------------------------------------
HasUrl(url) == url # ""

\* Entry of the call; entries without a link are skipped by `continue`.
StoreCall(feed_id, entries) ==
    [pc |-> "select", feed_id |-> feed_id,
     entries |-> SelectSeq(entries, HasUrl), article_id |-> 0,
     new_article_ids |-> << >>]

StoreReturned(t) == store[t].pc \in {"ok", "err"}

\* Top of the loop: return Ok(new_article_ids) when no entry is left, else
\* SELECT id FROM articles WHERE canonical_url = ? for the next entry.
S_Select(t) ==
    /\ store[t].pc = "select"
    /\ LET s == store[t]
           existing_id == IF s.entries = << >> THEN 0
                          ELSE ArticleIdByUrl(Head(s.entries))
       IN  store' = [store EXCEPT ![t] =
              IF s.entries = << >> THEN [s EXCEPT !.pc = "ok"]
              ELSE IF existing_id # 0
                   THEN [s EXCEPT !.pc = "occurrence", !.article_id = existing_id]
                   ELSE [s EXCEPT !.pc = "insert"]]
    /\ UNCHANGED <<connVars, now, dbVars, worker, manual, cf, histVars, fetchVars, pipeVars>>

\* INSERT INTO articles ... RETURNING id; a constraint violation is returned
\* to the caller by `?` and the ids collected so far are dropped with it.
S_Insert(t) ==
    /\ store[t].pc = "insert"
    /\ LET s == store[t]
           url == Head(s.entries)
       IN  IF ArticlesUrlUnique(url)
           THEN /\ articles' = Append(articles, url)
                /\ store' = [store EXCEPT ![t] =
                      [s EXCEPT !.pc = "occurrence",
                                !.article_id = Len(articles) + 1,
                                !.new_article_ids = Append(@, Len(articles) + 1)]]
           ELSE /\ articles' = articles
                /\ store' = [store EXCEPT ![t] = [s EXCEPT !.pc = "err"]]
    /\ UNCHANGED <<connVars, now, feeds, subscriptions, article_occurrences,
                   worker, manual, cf, histVars, fetchVars, pipeVars>>

\* INSERT OR IGNORE INTO article_occurrences (article_id, feed_id, ..).
S_Occurrence(t) ==
    /\ store[t].pc = "occurrence"
    /\ LET s == store[t]
           p == <<s.article_id, s.feed_id>>
       IN  /\ article_occurrences' =
                 IF OccurrencesUnique(s.article_id, s.feed_id)
                 THEN [article_occurrences EXCEPT ![p] = @ + 1]
                 ELSE article_occurrences
           /\ store' = [store EXCEPT ![t] =
                 [s EXCEPT !.pc = "select", !.entries = Tail(@)]]
    /\ UNCHANGED <<connVars, now, feeds, subscriptions, articles,
                   worker, manual, cf, histVars, fetchVars, pipeVars>>

\* A caller invokes store_feed_items(pool, feed_id, entries).
S_Call(t) ==
    /\ store[t].pc = "idle"
    /\ budget.calls > 0
    /\ \E f \in DOMAIN feeds, es \in EntryLists :
          store' = [store EXCEPT ![t] = StoreCall(f, es)]
    /\ budget' = [budget EXCEPT !.calls = @ - 1]
    /\ UNCHANGED <<connVars, now, dbVars, worker, manual, cf, tick, lastCommit, fetchVars, pipeVars>>

\* The call has returned Ok(new_article_ids) or Err to that caller.
S_Return(t) ==
    /\ StoreReturned(t)
    /\ store' = [store EXCEPT ![t] = StoreIdle]
    /\ UNCHANGED <<connVars, now, dbVars, worker, manual, cf, histVars, fetchVars, pipeVars>>

\* ------------------------------------------------------------------------
\* run_worker (main.rs): one scheduler loop
\* ------------------------------------------------------------------------
\* SQL comparison: a comparison with NULL is not true.
SqlLe(a, b) == a # NULL /\ b # NULL /\ a <= b

\* Variant: the query without `OR next_poll_at IS NULL`.
IsDue_NoNull(next_poll_at, t) == SqlLe(next_poll_at, t)

\* WHERE next_poll_at <= ? OR next_poll_at IS NULL
IsDue(next_poll_at, t) == SqlLe(next_poll_at, t) \/ next_poll_at = NULL

FeedIds == [i \in 1..Len(feeds) |-> i]

DueNow(id) == IsDue(feeds[id].next_poll_at, now)

RowOf(id) ==
    [id |-> id, interval |-> feeds[id].poll_interval_minutes,
     adaptive |-> feeds[id].adaptive_scheduling]

\* The rows of the SELECT, in rowid order.
DueRows ==
    LET ids == SelectSeq(FeedIds, DueNow)
    IN  [k \in 1..Len(ids) |-> RowOf(ids[k])]

\* Variant: halving without the 15-minute floor.
WorkerInterval_NoFloor(interval, adaptive, new_items_found) ==
    IF adaptive
    THEN IF new_items_found
         THEN interval \div 2
         ELSE Min(interval + (interval \div 2), MaxInterval)
    ELSE interval

\* Adaptive scheduling update after a successful fetch.
WorkerInterval(interval, adaptive, new_items_found) ==
    IF adaptive
    THEN IF new_items_found
         THEN Max(interval \div 2, MinInterval)
         ELSE Min(interval + (interval \div 2), MaxInterval)
    ELSE interval

\* Variant: doubling without the 24-hour cap.
WorkerBackoff_NoCap(interval) == interval * 2

\* Variant: a failed fetch handled like a fetch without new items.
WorkerBackoff_Grow(interval) == Min(interval + (interval \div 2), MaxInterval)

\* Scheduler backoff after a failed fetch.
WorkerBackoff(interval) == Min(interval * 2, MaxInterval)

\* Variant: the UPDATE sets poll_interval_minutes only.
UpdateFeed_IntervalOnly(id, next_poll, interval) ==
    [feeds EXCEPT ![id].poll_interval_minutes = interval]

\* UPDATE feeds SET next_poll_at = ?, poll_interval_minutes = ? WHERE id = ?
UpdateFeed(id, next_poll, interval) ==
    [feeds EXCEPT ![id].next_poll_at = next_poll,
                  ![id].poll_interval_minutes = interval]

Outcome(res) ==
    IF res.pc = "err" THEN "store_err"
    ELSE IF res.new_article_ids # << >> THEN "ok_new" ELSE "ok_none"

Commit(outcome, prev, adaptive, inserted, written) ==
    [outcome |-> outcome, prev |-> prev, adaptive |-> adaptive,
     inserted |-> inserted, interval |-> written.poll_interval_minutes,
     offset |-> written.next_poll_at - now]

NextRow == [pc |-> IF Len(worker.rows) > 1 THEN "fetch" ELSE "tick_end",
            rows |-> Tail(worker.rows)]

\* Top of the loop: let now = Utc::now(); SELECT the due feeds.
W_SelectDue ==
    /\ worker.pc = "select"
    /\ budget.ticks > 0
    /\ worker' = [pc |-> IF DueRows = << >> THEN "tick_end" ELSE "fetch",
                  rows |-> DueRows]
    /\ tick' = [now |-> now,
                snapshot |-> [i \in 1..Len(feeds) |-> feeds[i].next_poll_at],
                fetched |-> {}, updated |-> << >>]
    /\ budget' = [budget EXCEPT !.ticks = @ - 1]
    /\ UNCHANGED <<connVars, now, dbVars, manual, store, cf, lastCommit, fetchVars, pipeVars>>

\* fetch_and_parse_feed(&url, timeout).await for the next row.
W_Fetch ==
    /\ worker.pc = "fetch"
    /\ \E o \in FetchOutcomes, es \in EntryLists :
          LET row == Head(worker.rows)
          IN  /\ tick' = [tick EXCEPT !.fetched = @ \cup {row.id}]
              /\ IF o = "ok"
                 THEN /\ worker' = [worker EXCEPT !.pc = "store"]
                      /\ store' = [store EXCEPT !["worker"] = StoreCall(row.id, es)]
                 ELSE /\ worker' = [worker EXCEPT !.pc = "backoff"]
                      /\ store' = store
    /\ UNCHANGED <<connVars, now, dbVars, manual, cf, budget, lastCommit, fetchVars, pipeVars>>

\* Fetch succeeded and store_feed_items has returned: adaptive update and
\* UPDATE feeds SET next_poll_at, poll_interval_minutes, last_checked.
W_Commit ==
    /\ worker.pc = "store"
    /\ StoreReturned("worker")
    /\ LET row == Head(worker.rows)
           res == store["worker"]
           new_items_found == res.pc = "ok" /\ res.new_article_ids # << >>
           interval == WorkerInterval(row.interval, row.adaptive, new_items_found)
       IN  /\ feeds' = UpdateFeed(row.id, now + interval, interval)
           /\ lastCommit' = [lastCommit EXCEPT !["worker"] =
                 Commit(Outcome(res), row.interval, row.adaptive,
                        Len(res.new_article_ids), feeds'[row.id])]
           /\ tick' = [tick EXCEPT !.updated = Append(@, row.id)]
    /\ store' = [store EXCEPT !["worker"] = StoreIdle]
    /\ worker' = NextRow
    /\ UNCHANGED <<connVars, now, subscriptions, articles, article_occurrences,
                   manual, cf, budget, fetchVars, pipeVars>>

\* Fetch failed: double the interval (cap 1440) and reschedule.
W_Backoff ==
    /\ worker.pc = "backoff"
    /\ LET row == Head(worker.rows)
           new_interval == WorkerBackoff(row.interval)
       IN  /\ feeds' = UpdateFeed(row.id, now + new_interval, new_interval)
           /\ lastCommit' = [lastCommit EXCEPT !["worker"] =
                 Commit("fetch_err", row.interval, row.adaptive,
                        0, feeds'[row.id])]
           /\ tick' = [tick EXCEPT !.updated = Append(@, row.id)]
    /\ worker' = NextRow
    /\ UNCHANGED <<connVars, now, subscriptions, articles, article_occurrences,
                   manual, store, cf, budget, fetchVars, pipeVars>>

\* Minutes until some feed becomes due, as seen at the end of a tick.
DueGaps ==
    {feeds[i].next_poll_at - now : i \in DOMAIN feeds} \cap (1..(2 * MaxInterval))

\* select! { sleep(60 s) }: at least a minute passes before the next tick;
\* ticks that find nothing due are skipped over.  A sleep that is still
\* pending after the shutdown signal began after it, and main's wait of 20
\* seconds ends before that sleep does.
W_Sleep ==
    /\ worker.pc = "tick_end"
    /\ budget.ticks > 0
    /\ ~sd.raised
    /\ \E d \in {1} \cup DueGaps : now' = now + d
    /\ worker' = [worker EXCEPT !.pc = "select"]
    /\ tick' = NoTick
    /\ UNCHANGED <<connVars, dbVars, manual, store, cf, budget, lastCommit, fetchVars, pipeVars>>

\* ------------------------------------------------------------------------
\* trigger_fetch (server.rs): POST /api/v1/fetch and the task it spawns
\* ------------------------------------------------------------------------
\* `if adaptive && fetch_success { .. }`
ManualInterval(interval, adaptive, fetch_success, new_items_found) ==
    IF adaptive /\ fetch_success
    THEN IF new_items_found
         THEN Max(interval \div 2, MinInterval)
         ELSE Min(interval + (interval \div 2), MaxInterval)
    ELSE interval

\* The handler: spawn the task and answer 202 Accepted.
M_Trigger ==
    /\ manual.pc = "idle"
    /\ budget.manual > 0
    /\ \E f \in 1..MaxFeeds : manual' = [ManualIdle EXCEPT !.pc = "read", !.feed_id = f]
    /\ budget' = [budget EXCEPT !.manual = @ - 1]
    /\ UNCHANGED <<connVars, now, dbVars, worker, store, cf, tick, lastCommit, fetchVars, pipeVars>>

\* SELECT url, poll_interval_minutes, adaptive_scheduling FROM feeds WHERE id = ?
M_ReadFeed ==
    /\ manual.pc = "read"
    /\ manual' =
          IF manual.feed_id \in DOMAIN feeds
          THEN [manual EXCEPT
                  !.pc = "fetch",
                  !.interval = feeds[manual.feed_id].poll_interval_minutes,
                  !.adaptive = feeds[manual.feed_id].adaptive_scheduling]
          ELSE ManualIdle
    /\ UNCHANGED <<connVars, now, dbVars, worker, store, cf, histVars, fetchVars, pipeVars>>

M_Fetch ==
    /\ manual.pc = "fetch"
    /\ \E o \in FetchOutcomes, es \in EntryLists :
          /\ IF o = "ok"
             THEN /\ manual' = [manual EXCEPT !.pc = "store", !.fetch_success = TRUE]
                  /\ store' = [store EXCEPT !["manual"] = StoreCall(manual.feed_id, es)]
             ELSE /\ manual' = [manual EXCEPT !.pc = "commit", !.fetch_success = FALSE]
                  /\ store' = store
    /\ UNCHANGED <<connVars, now, dbVars, worker, cf, histVars, fetchVars, pipeVars>>

\* Adaptive logic and UPDATE feeds, reached after either fetch outcome.
M_Commit ==
    /\ \/ manual.pc = "commit"
       \/ manual.pc = "store" /\ StoreReturned("manual")
    /\ LET res == store["manual"]
           new_items_found ==
               manual.fetch_success /\ res.pc = "ok" /\ res.new_article_ids # << >>
           interval == ManualInterval(manual.interval, manual.adaptive,
                                      manual.fetch_success, new_items_found)
       IN  /\ feeds' = UpdateFeed(manual.feed_id, now + interval, interval)
           /\ lastCommit' = [lastCommit EXCEPT !["manual"] =
                 Commit(IF manual.fetch_success THEN Outcome(res) ELSE "fetch_err",
                        manual.interval, manual.adaptive,
                        Len(res.new_article_ids), feeds'[manual.feed_id])]
    /\ store' = [store EXCEPT !["manual"] = StoreIdle]
    /\ manual' = ManualIdle
    /\ UNCHANGED <<connVars, now, subscriptions, articles, article_occurrences,
                   worker, cf, budget, tick, fetchVars, pipeVars>>

\* ------------------------------------------------------------------------
\* create_feed (server.rs): POST /api/v1/feeds
\* ------------------------------------------------------------------------
Reply(status, id, subscription_id) ==
    [status |-> status, id |-> id, subscription_id |-> subscription_id]

\* The request of an existing user: SELECT id FROM feeds WHERE url = ?
CF_FindFeed(r) ==
    /\ cf[r].pc = "idle"
    /\ budget.create > 0
    /\ \E u \in Users, url \in FeedUrls :
          LET rec == [CfIdle EXCEPT
                        !.user_id = u, !.url = url,
                        !.prior = IF FeedIdByUrl(url) = 0 THEN 0
                                  ELSE SubscriptionId(u, FeedIdByUrl(url))]
          IN  cf' = [cf EXCEPT ![r] =
                       IF FeedIdByUrl(url) # 0
                       THEN [rec EXCEPT !.pc = "check_sub",
                                        !.feed_id = FeedIdByUrl(url)]
                       ELSE [rec EXCEPT !.pc = "insert_feed"]]
    /\ budget' = [budget EXCEPT !.create = @ - 1]
    /\ UNCHANGED <<connVars, now, dbVars, worker, manual, store, tick, lastCommit, fetchVars, pipeVars>>

\* INSERT INTO feeds (url, title, next_poll_at) VALUES (?, ?, NULL)
CF_InsertFeed(r) ==
    /\ cf[r].pc = "insert_feed"
    /\ IF FeedsUrlUnique(cf[r].url)
       THEN /\ feeds' = Append(feeds, NewFeedRow(cf[r].url))
            /\ cf' = [cf EXCEPT ![r].pc = "check_sub", ![r].feed_id = Len(feeds) + 1]
       ELSE /\ feeds' = feeds
            /\ cf' = [cf EXCEPT ![r].pc = "idle",
                                ![r].reply = Reply("InternalServerError", 0, 0)]
    /\ UNCHANGED <<connVars, now, subscriptions, articles, article_occurrences,
                   worker, manual, store, histVars, fetchVars, pipeVars>>

\* SELECT id FROM subscriptions WHERE user_id = ? AND feed_id = ?
CF_CheckSub(r) ==
    /\ cf[r].pc = "check_sub"
    /\ LET sub_exists == SubscriptionId(cf[r].user_id, cf[r].feed_id)
       IN  cf' = [cf EXCEPT ![r] =
                    IF sub_exists # 0
                    THEN [cf[r] EXCEPT
                            !.pc = "idle",
                            !.reply = Reply("Already subscribed", cf[r].feed_id, sub_exists)]
                    ELSE [cf[r] EXCEPT !.pc = "insert_sub"]]
    /\ UNCHANGED <<connVars, now, dbVars, worker, manual, store, histVars, fetchVars, pipeVars>>

\* INSERT INTO subscriptions (user_id, feed_id, title) VALUES (?, ?, ?)
CF_InsertSub(r) ==
    /\ cf[r].pc = "insert_sub"
    /\ IF SubscriptionsUnique(cf[r].user_id, cf[r].feed_id)
       THEN /\ subscriptions' =
                  Append(subscriptions,
                         [user_id |-> cf[r].user_id, feed_id |-> cf[r].feed_id])
            /\ cf' = [cf EXCEPT ![r].pc = "idle",
                        ![r].reply = Reply("Ok", cf[r].feed_id, Len(subscriptions) + 1)]
       ELSE /\ subscriptions' = subscriptions
            /\ cf' = [cf EXCEPT ![r].pc = "idle",
                                ![r].reply = Reply("InternalServerError", 0, 0)]
    /\ UNCHANGED <<connVars, now, feeds, articles, article_occurrences,
                   worker, manual, store, histVars, fetchVars, pipeVars>>

\* ------------------------------------------------------------------------
\* Specification of the scheduler, the manual trigger and the store
\* ------------------------------------------------------------------------
Next ==
    \/ W_SelectDue
    \/ W_Fetch
    \/ W_Commit
    \/ W_Backoff
    \/ W_Sleep
    \/ M_Trigger
    \/ M_ReadFeed
    \/ M_Fetch
    \/ M_Commit
    \/ \E t \in Tasks : S_Select(t)
    \/ \E t \in Tasks : S_Insert(t)
    \/ \E t \in Tasks : S_Occurrence(t)

Spec == Init /\ [][Next]_vars

\* ------------------------------------------------------------------------
\* Specification of the scheduler and POST /feeds
\* ------------------------------------------------------------------------
InitFeeds ==
    /\ InitCommon
    /\ feeds = << NewFeedRow("fx") >>
    /\ budget = Budget(MaxTicks, 0, MaxCreate, 0)

NextFeeds ==
    \/ W_SelectDue
    \/ W_Fetch
    \/ W_Commit
    \/ W_Backoff
    \/ W_Sleep
    \/ S_Select("worker")
    \/ S_Insert("worker")
    \/ S_Occurrence("worker")
    \/ CF_FindFeed(1)
    \/ CF_InsertFeed(1)
    \/ CF_CheckSub(1)
    \/ CF_InsertSub(1)

SpecFeeds == InitFeeds /\ [][NextFeeds]_vars

\* ------------------------------------------------------------------------
\* Specification of concurrent POST /feeds requests
\* ------------------------------------------------------------------------
InitSubs ==
    /\ InitCommon
    /\ feeds = << NewFeedRow("fx") >>
    /\ budget = Budget(0, 0, MaxPosts, 0)

NextSubs ==
    \/ \E r \in Requests : CF_FindFeed(r)
    \/ \E r \in Requests : CF_InsertFeed(r)
    \/ \E r \in Requests : CF_CheckSub(r)
    \/ \E r \in Requests : CF_InsertSub(r)

SpecSubs == InitSubs /\ [][NextSubs]_vars

\* ------------------------------------------------------------------------
\* Specification of concurrent store_feed_items calls on two feeds
\* ------------------------------------------------------------------------
InitStore ==
    /\ InitCommon
    /\ feeds = << NewFeedRow("fx"), NewFeedRow("fy") >>
    /\ budget = Budget(0, 0, 0, MaxCalls)

NextStore ==
    \/ \E t \in Tasks : S_Call(t)
    \/ \E t \in Tasks : S_Select(t)
    \/ \E t \in Tasks : S_Insert(t)
    \/ \E t \in Tasks : S_Occurrence(t)
    \/ \E t \in Tasks : S_Return(t)

SpecStore == InitStore /\ [][NextStore]_vars

\* ------------------------------------------------------------------------
\* Specification of one call of fetch_and_parse_feed
\* ------------------------------------------------------------------------
\* One loop iteration: optional backoff sleep, one GET, the match on it.
F_Attempt ==
    /\ LoopRunning(fst)
    /\ \E resp \in Responses :
          /\ fst' = FetchIteration(fst, resp)
          /\ fresp' = Append(fresp, resp)
    /\ UNCHANGED <<connVars, now, dbVars, taskVars, histVars, pipeVars>>

\* The loop ran max_retries times without returning.
F_Exhausted ==
    /\ LoopOver(fst)
    /\ fst' = FetchExhausted(fst)
    /\ UNCHANGED <<connVars, now, dbVars, taskVars, histVars, pipeVars, fresp>>

InitFetch ==
    /\ InitCommon
    /\ feeds = << NewFeedRow("fx") >>
    /\ budget = Budget(0, 0, 0, 0)

NextFetch == F_Attempt \/ F_Exhausted

SpecFetch == InitFetch /\ [][NextFetch]_vars

\* ------------------------------------------------------------------------
\* chat_websocket (sessions/websocket.rs): the digest task of a new session
\* ------------------------------------------------------------------------
\* LIMIT ?: estimated_articles, at least 3 whatever the session's duration.
MinDigestArticles == 3

Subscribed(u, f) == SubscriptionId(u, f) # 0

\* Variant: the query without the joins on occurrences and subscriptions.
InSubscribedFeed_Any(u, a) == TRUE

\* JOIN article_occurrences ao .. JOIN subscriptions s ON s.feed_id =
\* ao.feed_id AND s.user_id = ?
InSubscribedFeed(u, a) ==
    \E f \in DOMAIN feeds : article_occurrences[<<a, f>>] > 0 /\ Subscribed(u, f)

\* Variant: only the views recorded by session s itself are excluded.
NotViewed_Session(u, a, s) == <<u, a, s>> \notin user_article_views

\* LEFT JOIN user_article_views uav ON uas.user_id = uav.user_id AND
\* uas.article_id = uav.article_id .. WHERE uav.id IS NULL; the session s
\* that runs the query does not appear in it.
NotViewed(u, a, s) == \A v \in user_article_views : v[1] # u \/ v[2] # a

\* user_article_views: one row per (user_id, article_id), which is what
\* INSERT OR IGNORE relies on.
ViewsUnique(u, a) == \A v \in user_article_views : v[1] # u \/ v[2] # a

\* Rows of the SELECT of session s for user u, one per article (GROUP BY
\* uas.article_id), before ORDER BY and LIMIT.
DigestRows(u, s) ==
    {a \in DOMAIN articles :
        /\ user_article_summaries[<<u, a>>].present
        /\ user_article_summaries[<<u, a>>].is_relevant
        /\ InSubscribedFeed(u, a)
        /\ NotViewed(u, a, s)}

\* ORDER BY uas.relevance_score DESC, a.first_seen_at DESC (a later row id
\* was first seen later).
Before(u, a, b) ==
    LET ra == user_article_summaries[<<u, a>>].relevance_score
        rb == user_article_summaries[<<u, b>>].relevance_score
    IN  ra > rb \/ (ra = rb /\ a > b)

Ordered(u, S) ==
    CHOOSE q \in [1..Cardinality(S) -> S] :
        \A i, j \in 1..Cardinality(S) : i < j => Before(u, q[i], q[j])

Take(q, n) == SubSeq(q, 1, Min(Len(q), n))

DigestQuery(u, s) == Take(Ordered(u, DigestRows(u, s)), MinDigestArticles)

\* generate_press_review (press_review.rs): candidate articles, the 30 most
\* recent unread ones per subscribed feed; DISTINCT article ids of the rows.
PressReviewCandidates(u) ==
    {a \in DOMAIN articles :
        /\ user_article_summaries[<<u, a>>].present
        /\ InSubscribedFeed(u, a)
        /\ NotViewed(u, a, 0)}

\* A new session of user u: the SELECT of personalized summaries.  When it
\* fails or returns nothing, one message is sent and the task ends.
WS_Query(s) ==
    /\ ws[s].pc = "idle"
    /\ \E u \in Users, ok \in BOOLEAN :
          LET rows == IF ok THEN DigestQuery(u, s) ELSE << >>
          IN  ws' = [ws EXCEPT ![s] =
                       [pc |-> IF rows = << >> THEN "done" ELSE "stream",
                        user_id |-> u, articles |-> rows, sent |-> << >>]]
    /\ UNCHANGED <<connVars, now, dbVars, taskVars, histVars, fetchVars,
                   user_article_summaries, user_article_views, pz,
                   processing_jobs, processing_status, article_summaries, proc>>

\* One iteration of the streaming loop: refine, send the news_card, then
\* INSERT OR IGNORE INTO user_article_views, whose result is dropped.
WS_Card(s) ==
    /\ ws[s].pc = "stream"
    /\ \E ok \in BOOLEAN :
          LET a == Head(ws[s].articles)
          IN  /\ user_article_views' =
                    IF ok /\ ViewsUnique(ws[s].user_id, a)
                    THEN user_article_views \cup {<<ws[s].user_id, a, s>>}
                    ELSE user_article_views
              /\ ws' = [ws EXCEPT
                          ![s].sent = Append(@, a),
                          ![s].articles = Tail(@),
                          ![s].pc = IF Tail(ws[s].articles) = << >>
                                    THEN "done" ELSE "stream"]
    /\ UNCHANGED <<connVars, now, dbVars, taskVars, histVars, fetchVars,
                   user_article_summaries, pz,
                   processing_jobs, processing_status, article_summaries, proc>>

\* ------------------------------------------------------------------------
\* Specification of concurrent digest tasks over a populated database
\* ------------------------------------------------------------------------
AllSubscriptions ==
    << [user_id |-> 1, feed_id |-> 1], [user_id |-> 1, feed_id |-> 2],
       [user_id |-> 2, feed_id |-> 1], [user_id |-> 2, feed_id |-> 2] >>

\* A personalized summary as personalize_for_users stores it.
StoredSummary(u, score) ==
    [present |-> TRUE, relevance_score |-> score, is_relevant |-> TRUE,
     language |-> Profile(u).language,
     complexity_level |-> Profile(u).complexity_level]

InitDigest ==
    /\ now = 0
    /\ feeds = << NewFeedRow("fx"), NewFeedRow("fy") >>
    /\ articles = << "a", "b" >>
    /\ \E S \in SUBSET Range(AllSubscriptions) :
          subscriptions = SelectSeq(AllSubscriptions, LAMBDA r : r \in S)
    /\ article_occurrences \in [OccPairs -> {0, 1}]
    /\ \A a \in ArticleIds : \E f \in 1..MaxFeeds : article_occurrences[<<a, f>>] > 0
    /\ user_article_summaries \in
          {[k \in SummaryKeys |-> IF k \in K THEN StoredSummary(k[1], 50) ELSE NoSummary] :
             K \in SUBSET SummaryKeys}
    /\ user_article_views = {}
    /\ ws = [s \in Sessions |-> WsIdle]
    /\ worker = [pc |-> "select", rows |-> << >>]
    /\ manual = ManualIdle
    /\ store = [t \in Tasks |-> StoreIdle]
    /\ cf = [r \in Requests |-> CfIdle]
    /\ tick = NoTick
    /\ lastCommit = [t \in Tasks |-> NoCommit]
    /\ budget = Budget(0, 0, 0, 0)
    /\ fst = FetchStart
    /\ fresp = << >>
    /\ InitPipeline
    /\ InitConn

NextDigest ==
    \/ \E s \in Sessions : WS_Query(s)
    \/ \E s \in Sessions : WS_Card(s)

SpecDigest == InitDigest /\ [][NextDigest]_vars

\* ------------------------------------------------------------------------
\* personalize_for_users (personalize_worker.rs)
\* ------------------------------------------------------------------------
\* relevance.score, in hundredths; 50 is the default when the answer of the
\* LLM cannot be parsed.
Scores == {0, 29, 30, 50, 100}

\* relevance.score < 0.3, in hundredths
RelevanceThreshold == 30

\* Variant: no article is skipped as not relevant.
SkipNotRelevant_Never(score) == FALSE

SkipNotRelevant(score) == score < RelevanceThreshold

\* What can happen to one user: the profile load, the relevance call, the
\* personalization call and the INSERT each succeed or fail.
UserInputs ==
    [profile_ok : BOOLEAN, relevance_ok : BOOLEAN, score : Scores,
     personalized_ok : BOOLEAN, insert_ok : BOOLEAN]

\* Where the loop body ends for one user.
UserStep(in) ==
    IF ~in.profile_ok THEN "profile_err"
    ELSE IF ~in.relevance_ok THEN "relevance_err"
    ELSE IF SkipNotRelevant(in.score) THEN "not_relevant"
    ELSE IF ~in.personalized_ok THEN "personalize_err"
    ELSE IF ~in.insert_ok THEN "insert_err"
    ELSE "stored"

LogEntry(st, in) ==
    [article_id |-> st.article_id, user_id |-> Head(st.users),
     step |-> UserStep(in),
     score |-> IF in.profile_ok /\ in.relevance_ok THEN in.score ELSE -1]

\* Variant: the first failure for a user ends the call.
PersonalizeUser_Abort(st, in) ==
    [st EXCEPT
       !.users = Tail(@),
       !.log = Append(@, LogEntry(st, in)),
       !.personalized_count = IF UserStep(in) = "stored" THEN @ + 1 ELSE @,
       !.pc = IF Tail(st.users) = << >> \/
                 UserStep(in) \in {"profile_err", "relevance_err",
                                   "personalize_err", "insert_err"}
              THEN "done" ELSE "loop"]

\* One iteration of `for user_row in users`: every failure is logged and
\* followed by `continue`, or by the end of the loop body.
PersonalizeUser(st, in) ==
    [st EXCEPT
       !.users = Tail(@),
       !.log = Append(@, LogEntry(st, in)),
       !.personalized_count = IF UserStep(in) = "stored" THEN @ + 1 ELSE @,
       !.pc = IF Tail(st.users) = << >> THEN "done" ELSE "loop"]

\* The call: SELECT DISTINCT u.id FROM users u, whose failure ends it.
PZ_Call ==
    /\ pz.pc \in {"idle", "done"}
    /\ pz.runs < MaxRuns
    /\ \E a \in ArticleIds, ok \in BOOLEAN :
          pz' = [pz EXCEPT
                   !.pc = IF ok THEN "loop" ELSE "done",
                   !.article_id = a,
                   !.fetched = IF ok THEN <<1, 2>> ELSE << >>,
                   !.users = IF ok THEN <<1, 2>> ELSE << >>,
                   !.personalized_count = 0,
                   !.runs = @ + 1]
    /\ UNCHANGED <<connVars, now, dbVars, taskVars, histVars, fetchVars,
                   user_article_summaries, user_article_views, ws,
                   processing_jobs, processing_status, article_summaries, proc>>

\* One user: profile, relevance, personalized summary, INSERT OR REPLACE.
PZ_User ==
    /\ pz.pc = "loop"
    /\ \E in \in UserInputs :
          /\ pz' = PersonalizeUser(pz, in)
          /\ user_article_summaries' =
                IF UserStep(in) = "stored"
                THEN [user_article_summaries EXCEPT
                        ![<<Head(pz.users), pz.article_id>>] =
                            StoredSummary(Head(pz.users), in.score)]
                ELSE user_article_summaries
    /\ UNCHANGED <<connVars, now, dbVars, taskVars, histVars, fetchVars,
                   user_article_views, ws,
                   processing_jobs, processing_status, article_summaries, proc>>

\* ------------------------------------------------------------------------
\* Specification of successive personalize_for_users calls
\* ------------------------------------------------------------------------
InitPers ==
    /\ InitCommon
    /\ feeds = << NewFeedRow("fx") >>
    /\ budget = Budget(0, 0, 0, 0)

NextPers == PZ_Call \/ PZ_User

SpecPers == InitPers /\ [][NextPers]_vars

\* ------------------------------------------------------------------------
\* batch_process_articles, process_single_article (processing.rs)
\* ------------------------------------------------------------------------
\* `for &article_id in chunk`: the next article of the batch, or its end.
NextArticle(st, ids) ==
    IF ids = << >>
    THEN [st EXCEPT !.pc = "done", !.ids = << >>, !.article_id = 0, !.job_id = 0,
                    !.llm = "none", !.summary = "none", !.failed = FALSE]
    ELSE [st EXCEPT !.pc = "create", !.ids = Tail(ids), !.article_id = Head(ids),
                    !.job_id = 0, !.llm = "none", !.summary = "none",
                    !.failed = FALSE]

\* const BATCH_SIZE: usize = 5
BATCH_SIZE == 5

\* article_ids.chunks(BATCH_SIZE): consecutive slices of at most n ids.
RECURSIVE chunks(_, _)
chunks(ids, n) ==
    IF ids = << >> THEN << >>
    ELSE IF Len(ids) <= n THEN << ids >>
    ELSE << SubSeq(ids, 1, n) >> \o chunks(SubSeq(ids, n + 1, Len(ids)), n)

\* The ids in the order the two nested for loops visit them.
RECURSIVE Visited(_)
Visited(cs) == IF cs = << >> THEN << >> ELSE Head(cs) \o Visited(Tail(cs))

\* batch_process_articles(pool, article_ids, ..): processed_count = 0, then
\* the first id of the first chunk.
StartBatch(st, article_ids) ==
    NextArticle([st EXCEPT !.input = article_ids, !.attempted = << >>,
                           !.processed_count = 0],
                Visited(chunks(article_ids, BATCH_SIZE)))

\* The match on what process_single_article returned: Ok counts, Err is
\* logged.
Attempt(st, ret) ==
    [st EXCEPT !.attempted = Append(@, [article_id |-> st.article_id,
                                        ret |-> ret]),
               !.processed_count = IF ret = "ok" THEN @ + 1 ELSE @]

\* A variant that gives up the rest of the batch at the first error.
Return_Abort(st, ret, job_error) ==
    NextArticle([Attempt(st, ret) EXCEPT
                    !.last = [job_id |-> st.job_id,
                              article_id |-> st.article_id,
                              ret |-> ret, llm |-> st.llm,
                              job_error |-> job_error]],
                IF ret = "ok" THEN st.ids ELSE << >>)

\* process_single_article returns ret; the batch goes on with the next id.
Return(st, ret, job_error) ==
    NextArticle([Attempt(st, ret) EXCEPT
                    !.last = [job_id |-> st.job_id,
                              article_id |-> st.article_id,
                              ret |-> ret, llm |-> st.llm,
                              job_error |-> job_error]],
                st.ids)

SetStatus(job_id, status) ==
    [processing_jobs EXCEPT ![job_id].status = status]

\* SELECT id FROM articles WHERE processing_status = 'pending' ORDER BY
\* first_seen_at DESC LIMIT 50
PendingIds ==
    LET S == {a \in DOMAIN articles : processing_status[a] = "pending"}
    IN  [i \in 1..Cardinality(S) |->
           CHOOSE a \in S : Cardinality({b \in S : b > a}) = i - 1]

\* Outcomes of a statement or call that can fail, while failures remain
\* to be injected.
Results == IF budget.faults > 0 THEN BOOLEAN ELSE {TRUE}

Spend(ok) == budget' = IF ok THEN budget ELSE [budget EXCEPT !.faults = @ - 1]

\* POST /process-pending: process_pending_articles reads the pending ids.
P_SelectPending ==
    /\ proc["pending"].pc \in {"idle", "done"}
    /\ proc["pending"].posts < MaxPending
    /\ \E ok \in Results :
          /\ Spend(ok)
          /\ proc' = [proc EXCEPT !["pending"] =
                        IF ok
                        THEN StartBatch([proc["pending"] EXCEPT !.posts = @ + 1],
                                        PendingIds)
                        ELSE [proc["pending"] EXCEPT !.posts = @ + 1]]
    /\ UNCHANGED <<connVars, now, dbVars, taskVars, tick, lastCommit, fetchVars,
                   user_article_summaries, user_article_views, ws, pz,
                   processing_jobs, processing_status, article_summaries>>

\* create_processing_job: INSERT INTO processing_jobs .. 'pending'
P_CreateJob(b) ==
    /\ proc[b].pc = "create"
    /\ \E ok \in Results :
          /\ Spend(ok)
          /\ processing_jobs' =
                IF ok
                THEN Append(processing_jobs,
                            [entity_id |-> proc[b].article_id,
                             status |-> "pending", started_at |-> FALSE])
                ELSE processing_jobs
          /\ proc' = [proc EXCEPT ![b] =
                        IF ok
                        THEN [@ EXCEPT !.pc = "mark_running",
                                       !.job_id = Len(processing_jobs) + 1]
                        ELSE Return(proc[b], "err", FALSE)]
    /\ UNCHANGED <<connVars, now, dbVars, taskVars, tick, lastCommit, fetchVars,
                   user_article_summaries, user_article_views, ws, pz,
                   processing_status, article_summaries>>

\* update_job_status(pool, job_id, "running", None)
P_MarkRunning(b) ==
    /\ proc[b].pc = "mark_running"
    /\ \E ok \in Results :
          /\ Spend(ok)
          /\ processing_jobs' =
                IF ok
                THEN [processing_jobs EXCEPT ![proc[b].job_id].status = "running",
                                             ![proc[b].job_id].started_at = TRUE]
                ELSE processing_jobs
          /\ proc' = [proc EXCEPT ![b] =
                        IF ok THEN [@ EXCEPT !.pc = "fetch"]
                        ELSE Return(proc[b], "err", TRUE)]
    /\ UNCHANGED <<connVars, now, dbVars, taskVars, tick, lastCommit, fetchVars,
                   user_article_summaries, user_article_views, ws, pz,
                   processing_status, article_summaries>>

\* SELECT content, canonical_url FROM articles WHERE id = ?, then the
\* scraping fallback: a missing row, or content still shorter than 50
\* characters, ends the inner block with Ok((0, 0)).
P_Fetch(b) ==
    /\ proc[b].pc = "fetch"
    /\ \E ok \in Results, long \in BOOLEAN :
          /\ Spend(ok)
          /\ proc' = [proc EXCEPT ![b] =
                        IF ~ok
                        THEN [@ EXCEPT !.pc = "finish", !.failed = TRUE]
                        ELSE IF proc[b].article_id \notin DOMAIN articles \/ ~long
                        THEN [@ EXCEPT !.pc = "finish"]
                        ELSE [@ EXCEPT !.pc = "summarize"]]
    /\ UNCHANGED <<connVars, now, dbVars, taskVars, tick, lastCommit, fetchVars,
                   user_article_summaries, user_article_views, ws, pz,
                   processing_jobs, processing_status, article_summaries>>

\* summarize_article: the Summary of the LLM, or the extractive one when
\* the LLM call fails.
summarize_article(llm_ok) == IF llm_ok THEN "llm" ELSE "extractive"

\* html2text, summarize_article, classify_article (whose error is dropped).
P_Summarize(b) ==
    /\ proc[b].pc = "summarize"
    /\ \E html_ok \in Results, llm_ok \in BOOLEAN :
          /\ Spend(html_ok)
          /\ proc' = [proc EXCEPT ![b] =
                        IF ~html_ok
                        THEN [@ EXCEPT !.pc = "finish", !.failed = TRUE]
                        ELSE [@ EXCEPT !.pc = "store",
                                       !.llm = IF llm_ok THEN "ok" ELSE "failed",
                                       !.summary = summarize_article(llm_ok)]]
    /\ UNCHANGED <<connVars, now, dbVars, taskVars, tick, lastCommit, fetchVars,
                   user_article_summaries, user_article_views, ws, pz,
                   processing_jobs, processing_status, article_summaries>>

\* INSERT OR REPLACE INTO article_summaries
P_StoreSummary(b) ==
    /\ proc[b].pc = "store"
    /\ \E ok \in Results :
          /\ Spend(ok)
          /\ article_summaries' =
                IF ok
                THEN [article_summaries EXCEPT ![proc[b].article_id] = proc[b].summary]
                ELSE article_summaries
          /\ proc' = [proc EXCEPT ![b] =
                        IF ok THEN [@ EXCEPT !.pc = "mark_processed"]
                        ELSE [@ EXCEPT !.pc = "finish", !.failed = TRUE]]
    /\ UNCHANGED <<connVars, now, dbVars, taskVars, tick, lastCommit, fetchVars,
                   user_article_summaries, user_article_views, ws, pz,
                   processing_jobs, processing_status>>

\* UPDATE articles SET processing_status = 'completed', processed_at = ?
\* No personalization provider is configured, so the inner block ends here.
P_MarkProcessed(b) ==
    /\ proc[b].pc = "mark_processed"
    /\ \E ok \in Results :
          /\ Spend(ok)
          /\ processing_status' =
                IF ok
                THEN [processing_status EXCEPT ![proc[b].article_id] = "completed"]
                ELSE processing_status
          /\ proc' = [proc EXCEPT ![b] =
                        IF ok THEN [@ EXCEPT !.pc = "finish"]
                        ELSE [@ EXCEPT !.pc = "finish", !.failed = TRUE]]
    /\ UNCHANGED <<connVars, now, dbVars, taskVars, tick, lastCommit, fetchVars,
                   user_article_summaries, user_article_views, ws, pz,
                   processing_jobs, article_summaries>>

\* match result: Ok => complete_processing_job, Err => update_job_status
\* (.., "failed", ..)
JobResult(st) == IF st.failed THEN "failed" ELSE "completed"

\* The UPDATE of the job that ends the call; when it fails the call returns
\* the error and the job keeps its status.
P_Finish(b) ==
    /\ proc[b].pc = "finish"
    /\ \E ok \in Results :
          /\ Spend(ok)
          /\ processing_jobs' =
                IF ok THEN SetStatus(proc[b].job_id, JobResult(proc[b]))
                ELSE processing_jobs
          /\ proc' = [proc EXCEPT ![b] =
                        Return(proc[b],
                               IF ok /\ ~proc[b].failed THEN "ok" ELSE "err",
                               ~ok)]
    /\ UNCHANGED <<connVars, now, dbVars, taskVars, tick, lastCommit, fetchVars,
                   user_article_summaries, user_article_views, ws, pz,
                   processing_status, article_summaries>>

\* ------------------------------------------------------------------------
\* Specification of the summarization batches
\* ------------------------------------------------------------------------
\* The ids store_feed_items returned to a caller, in insertion order.
IdsOf(owner, t) ==
    LET S == {a \in ArticleIds : owner[a] = t}
    IN  [i \in 1..Cardinality(S) |->
           CHOOSE a \in S : Cardinality({c \in S : c < a}) = i - 1]

\* Both articles are stored. The first was new to the tick's store call;
\* the second was new to the tick's call, to the manual fetch's call, or to
\* a call made when no batch was spawned.
InitProc ==
    /\ now = 0
    /\ feeds = << NewFeedRow("fx") >>
    /\ subscriptions = << [user_id |-> 1, feed_id |-> 1] >>
    /\ articles = << "a", "b" >>
    /\ article_occurrences = [p \in OccPairs |-> IF p[2] = 1 THEN 1 ELSE 0]
    /\ worker = [pc |-> "select", rows |-> << >>]
    /\ manual = ManualIdle
    /\ store = [t \in Tasks |-> StoreIdle]
    /\ cf = [r \in Requests |-> CfIdle]
    /\ tick = NoTick
    /\ lastCommit = [t \in Tasks |-> NoCommit]
    /\ budget = [Budget(0, 0, 0, 0) EXCEPT !.faults = MaxFaults]
    /\ fst = FetchStart
    /\ fresp = << >>
    /\ user_article_summaries = [k \in SummaryKeys |-> NoSummary]
    /\ user_article_views = {}
    /\ ws = [s \in Sessions |-> WsIdle]
    /\ pz = PzIdle
    /\ processing_jobs = << >>
    /\ processing_status = [a \in ArticleIds |-> "pending"]
    /\ article_summaries = [a \in ArticleIds |-> "none"]
    /\ InitConn
    /\ \E owner \in {o \in [ArticleIds -> Tasks \cup {"none"}] :
                          o[1] = "worker"} :
          proc = [b \in Batches |->
                    IF b \in Tasks THEN StartBatch(ProcIdle, IdsOf(owner, b))
                    ELSE ProcIdle]

NextProc ==
    \/ P_SelectPending
    \/ \E b \in Batches : P_CreateJob(b)
    \/ \E b \in Batches : P_MarkRunning(b)
    \/ \E b \in Batches : P_Fetch(b)
    \/ \E b \in Batches : P_Summarize(b)
    \/ \E b \in Batches : P_StoreSummary(b)
    \/ \E b \in Batches : P_MarkProcessed(b)
    \/ \E b \in Batches : P_Finish(b)

SpecProc == InitProc /\ [][NextProc]_vars

\* The batch task a scheduler tick spawned for the ids store_feed_items
\* returned, alone: no manual fetch, no POST /process-pending.  The task is
\* polled until it ends.
Dispatched(a) ==
    \E i \in DOMAIN proc["worker"].input : proc["worker"].input[i] = a

NextDispatch ==
    \/ P_CreateJob("worker")
    \/ P_MarkRunning("worker")
    \/ P_Fetch("worker")
    \/ P_Summarize("worker")
    \/ P_StoreSummary("worker")
    \/ P_MarkProcessed("worker")
    \/ P_Finish("worker")

SpecDispatch == InitProc /\ [][NextDispatch]_vars /\ WF_vars(NextDispatch)

\* ------------------------------------------------------------------------
\* chat_websocket (sessions/websocket.rs): JIT refinement of a digest card
\* ------------------------------------------------------------------------
\* An LLM reply is a sequence of tokens: markers, "w" (a word of 12
\* characters) and "_" (white space).  The accented marker variants and the
\* trailing "(Note:" patterns do not occur in the replies considered.
TokenLen(t) ==
    CASE t = "w" -> 12
      [] t = "_" -> 1
      [] t \in {"SUMMARY:", "Summary:"} -> 8
      [] OTHER -> 6

RECURSIVE CharLen(_)
CharLen(c) == IF c = << >> THEN 0 ELSE TokenLen(Head(c)) + CharLen(Tail(c))

\* str::trim
RECURSIVE TrimStart(_)
TrimStart(c) == IF c # << >> /\ Head(c) = "_" THEN TrimStart(Tail(c)) ELSE c

RECURSIVE TrimEnd(_)
TrimEnd(c) ==
    IF c # << >> /\ c[Len(c)] = "_" THEN TrimEnd(SubSeq(c, 1, Len(c) - 1)) ELSE c

Trim(c) == TrimEnd(TrimStart(c))

\* str::find: the first position of m in text, 0 for None
Find(text, m) ==
    IF \E i \in DOMAIN text : text[i] = m
    THEN CHOOSE i \in DOMAIN text :
            text[i] = m /\ \A j \in 1..(i - 1) : text[j] # m
    ELSE 0

\* find_marker: the position of the first marker of the list that occurs
RECURSIVE find_marker(_, _)
find_marker(text, markers) ==
    IF markers = << >> THEN 0
    ELSE IF Find(text, Head(markers)) # 0 THEN Find(text, Head(markers))
    ELSE find_marker(text, Tail(markers))

TitleMarkers == <<"TITLE:", "TITRE:", "Title:", "Titre:">>

SummaryMarkers == <<"SUMMARY:", "RESUME:", "Summary:", "Resume:">>

\* The stored personalized headline or summary of the article.
Original == [src |-> "original", text |-> << >>]

Refined(text) == [src |-> "refined", text |-> text]

\* The whole reply of the LLM.
RawReply(content) == [src |-> "reply", text |-> content]

Fallback(article_lang) ==
    [title |-> Original, summary |-> Original, lang |-> article_lang]

\* Markers not found: a reply longer than 20 characters becomes the summary.
MarkersMissing(content, user_lang, article_lang) ==
    IF content # << >> /\ CharLen(content) > 20
    THEN [title |-> Original, summary |-> RawReply(content), lang |-> user_lang]
    ELSE Fallback(article_lang)

\* (final_title, final_summary, final_lang) of one card, from the result of
\* llm_provider.generate
Refine(resp, user_lang, article_lang) ==
    IF ~resp.ok THEN Fallback(article_lang)
    ELSE LET content == Trim(resp.content)
             t_idx == find_marker(content, TitleMarkers)
             s_idx == find_marker(content, SummaryMarkers)
         IN  IF t_idx # 0 /\ s_idx # 0
             THEN IF t_idx < s_idx
                  THEN LET title_part == Trim(SubSeq(content, t_idx + 1, s_idx - 1))
                           summary_clean ==
                              Trim(SubSeq(content, s_idx + 1, Len(content)))
                       IN  IF title_part # << >> /\ summary_clean # << >>
                           THEN [title |-> Refined(title_part),
                                 summary |-> Refined(summary_clean),
                                 lang |-> user_lang]
                           ELSE Fallback(article_lang)
                  ELSE Fallback(article_lang)
             ELSE MarkersMissing(content, user_lang, article_lang)

LlmErr == [ok |-> FALSE, content |-> << >>]

LlmOk(content) == [ok |-> TRUE, content |-> content]

\* Results of the refinement call.
Replies ==
    {LlmErr,
     LlmOk(<<"TITLE:", "w", "SUMMARY:", "w">>),
     LlmOk(<<"_", "TITLE:", "w", "_", "SUMMARY:", "w", "w", "_">>),
     LlmOk(<<"Title:", "w", "SUMMARY:", "w">>),
     LlmOk(<<"SUMMARY:", "w", "TITLE:", "w">>),
     LlmOk(<<"TITLE:", "_", "SUMMARY:", "w">>),
     LlmOk(<<"TITLE:", "w", "SUMMARY:", "_">>),
     LlmOk(<<"TITLE:", "w", "w">>),
     LlmOk(<<"w", "SUMMARY:", "w">>),
     LlmOk(<<"w", "w">>),
     LlmOk(<<"w">>),
     LlmOk(<< >>)}

\* ------------------------------------------------------------------------
\* chat_websocket: the channel, the forwarding task and the digest task
\* ------------------------------------------------------------------------
\* The session and the user of the connection.
ChatSession == 1

ChatUser == 1

\* Everything the connection's tasks leave alone, but for budget and
\* user_article_views.
restVars == <<libVars, now, dbVars, taskVars, tick, lastCommit, fetchVars,
              user_article_summaries, ws, pz, processing_jobs,
              processing_status, article_summaries, proc, pr, sd>>

\* A server event: json!({"type": .., ..})
Event(type, text) ==
    [type |-> type, text |-> text, article |-> 0, title |-> Original,
     summary |-> Original, lang |-> ""]

NewsCard(article_id, r) ==
    [type |-> "news_card", text |-> "", article |-> article_id,
     title |-> r.title, summary |-> r.summary, lang |-> r.lang]

\* tx.send(..): the message is queued unless the receiver is gone; the
\* result is dropped.
Send(q, ev) == IF fw.pc = "recv" THEN Append(q, ev) ELSE q

RECURSIVE SendAll(_, _)
SendAll(q, evs) ==
    IF evs = << >> THEN q ELSE SendAll(Send(q, Head(evs)), Tail(evs))

\* Variant: the forwarding task takes the newest queued message.
Recv_Newest(q, next) == q[Len(q)]

\* rx.recv(): the oldest message not yet received
Recv(q, next) == q[next]

\* while let Some(msg) = rx.recv().await { ws_sink.send(msg).await .. }
FW_Forward ==
    /\ fw.pc = "recv"
    /\ fw.next <= Len(chan)
    /\ \E ok \in Results :
          /\ Spend(ok)
          /\ fw' = IF ok
                   THEN [fw EXCEPT !.next = @ + 1,
                                   !.written = Append(@, [msg |-> Recv(chan, fw.next),
                                                          by |-> "forward"])]
                   ELSE [fw EXCEPT !.pc = "stopped"]
    /\ UNCHANGED <<restVars, user_article_views, chat_messages, ratings,
                   vector_updates, chan, chat, dg>>

\* rx.recv() returns None once every sender is dropped and the queue is empty.
FW_End ==
    /\ fw.pc = "recv"
    /\ fw.next > Len(chan)
    /\ chat.pc = "closed"
    /\ dg.pc \in {"off", "done"}
    /\ fw' = [fw EXCEPT !.pc = "ended"]
    /\ UNCHANGED <<restVars, budget, user_article_views, chat_messages, ratings,
                   vector_updates, chan, chat, dg>>

\* INSERT INTO chat_messages (session_id, author, message); created_at is
\* the column default, the time of the insert.
StoredMessage(author, message) ==
    [session_id |-> ChatSession, author |-> author, message |-> message,
     created_at |-> now]

\* The digest task starts: it sends the notification and reads the profile.
D_Profile ==
    /\ dg.pc = "profile"
    /\ \E ok \in Results :
          /\ Spend(ok)
          /\ dg' = [dg EXCEPT !.pc = "query",
                              !.lang = IF ok THEN Profile(dg.user_id).language
                                       ELSE chat.language]
    /\ chan' = Send(chan, Event("notification", "ready"))
    /\ UNCHANGED <<restVars, user_article_views, chat_messages, ratings,
                   vector_updates, fw, chat>>

\* The SELECT of the personalized summaries and the three ways it ends.
D_Query ==
    /\ dg.pc = "query"
    /\ \E ok \in Results :
          /\ Spend(ok)
          /\ LET rows == DigestQuery(dg.user_id, ChatSession)
             IN  IF ~ok
                 THEN /\ dg' = [dg EXCEPT !.pc = "done"]
                      /\ chan' = Send(chan, Event("message", "trouble"))
                 ELSE IF rows = << >>
                 THEN /\ dg' = [dg EXCEPT !.pc = "done"]
                      /\ chan' = Send(chan, Event("message", "no_articles"))
                 ELSE /\ dg' = [dg EXCEPT !.pc = "refine", !.rows = rows]
                      /\ chan' = Send(chan, Event("progress_hide", ""))
    /\ UNCHANGED <<restVars, user_article_views, chat_messages, ratings,
                   vector_updates, fw, chat>>

\* One card: the refinement call returns, the result is pushed to the
\* article context and the news_card is sent.
D_Refine ==
    /\ dg.pc = "refine"
    /\ \E resp \in dg.replies :
          LET a == Head(dg.rows)
              r == Refine(resp, dg.lang,
                          user_article_summaries[<<dg.user_id, a>>].language)
          IN  /\ dg' = [dg EXCEPT !.pc = "view",
                                  !.context = Append(@, [title |-> r.title,
                                                         summary |-> r.summary]),
                                  !.log = Append(@, [article_id |-> a,
                                                     resp |-> resp,
                                                     card |-> NewsCard(a, r),
                                                     viewed |-> FALSE])]
              /\ chan' = Send(chan, NewsCard(a, r))
    /\ UNCHANGED <<restVars, budget, user_article_views, chat_messages, ratings,
                   vector_updates, fw, chat>>

\* INSERT OR IGNORE INTO user_article_views, whose result is dropped, then
\* the pacing sleep.
D_View ==
    /\ dg.pc = "view"
    /\ \E ok \in Results :
          LET a == Head(dg.rows)
              inserted == ok /\ ViewsUnique(dg.user_id, a)
          IN  /\ Spend(ok)
              /\ user_article_views' =
                    IF inserted
                    THEN user_article_views \cup {<<dg.user_id, a, ChatSession>>}
                    ELSE user_article_views
              /\ dg' = [dg EXCEPT !.pc = IF Tail(dg.rows) = << >>
                                         THEN "complete" ELSE "refine",
                                  !.rows = Tail(@),
                                  !.log[Len(dg.log)].viewed = inserted]
    /\ UNCHANGED <<restVars, chat_messages, ratings, vector_updates, chan, fw,
                   chat>>

\* The closing message is stored (the result is dropped) and sent.
D_Complete ==
    /\ dg.pc = "complete"
    /\ \E ok \in Results :
          /\ Spend(ok)
          /\ chat_messages' =
                IF ok THEN Append(chat_messages,
                                  StoredMessage("assistant", "completion"))
                ELSE chat_messages
    /\ dg' = [dg EXCEPT !.pc = "done"]
    /\ chan' = Send(chan, Event("message", "completion"))
    /\ UNCHANGED <<restVars, user_article_views, ratings, vector_updates, fw,
                   chat>>

\* ------------------------------------------------------------------------
\* chat_websocket: the connection's future
\* ------------------------------------------------------------------------
\* Client messages handled on one connection.
MaxClient == 2

\* Variant: the rows of a session, newest first.
MessageOrder_Desc(i, j) ==
    \/ chat_messages[i].created_at > chat_messages[j].created_at
    \/ chat_messages[i].created_at = chat_messages[j].created_at /\ i > j

\* ORDER BY created_at ASC; rows of one created_at come out in the order of
\* the table scan, by row id.
MessageOrder(i, j) ==
    \/ chat_messages[i].created_at < chat_messages[j].created_at
    \/ chat_messages[i].created_at = chat_messages[j].created_at /\ i < j

\* get_messages: SELECT .. FROM chat_messages WHERE session_id = ? ORDER BY
\* created_at ASC
get_messages(session_id) ==
    LET S == {i \in DOMAIN chat_messages :
                 chat_messages[i].session_id = session_id}
        q == CHOOSE p \in [1..Cardinality(S) -> S] :
                \A i, j \in 1..Cardinality(S) :
                   i < j => MessageOrder(p[i], p[j])
    IN  [i \in 1..Cardinality(S) |-> chat_messages[q[i]]]

\* send_json(&tx, {"type": "history", "role": .., "content": ..})
History(msg) ==
    [Event("history", msg.message) EXCEPT
        !.lang = IF msg.author = "user" THEN "user" ELSE "assistant"]

\* get_session_with_messages, then the greeting and the spawn of the digest
\* task for a session without messages, or the replay of the stored ones.
C_Connect ==
    /\ chat.pc = "connect"
    /\ \E ok \in Results :
          /\ Spend(ok)
          /\ IF ~ok
             THEN /\ chat' = [chat EXCEPT !.pc = "closed"]
                  /\ UNCHANGED <<chan, dg>>
             ELSE LET messages == get_messages(ChatSession)
                  IN  /\ chat' = [chat EXCEPT !.pc = "loop", !.user_id = ChatUser,
                                              !.loaded = messages]
                      /\ IF messages = << >>
                         THEN IF chat.provider
                              THEN /\ chan' = Send(chan, Event("message", "greeting"))
                                   /\ dg' = [dg EXCEPT !.pc = "profile",
                                                       !.user_id = ChatUser]
                              ELSE UNCHANGED <<chan, dg>>
                         ELSE /\ chan' = SendAll(chan, [i \in DOMAIN messages |->
                                                          History(messages[i])])
                              /\ dg' = dg
    /\ UNCHANGED <<restVars, user_article_views, chat_messages, ratings,
                   vector_updates, fw>>

\* What a client sends: a rating, a chat message, or a close frame.
ClientMessages ==
    {[type |-> "rate", article_id |-> a, rating |-> 5] : a \in ArticleIds}
       \cup {[type |-> "message", article_id |-> 0, rating |-> 0],
             [type |-> "close", article_id |-> 0, rating |-> 0]}

\* The record the handler keeps of a client message it is done with.
Turn(msg, stored, llm, reply) ==
    [msg |-> msg, stored |-> stored, llm |-> llm, reply |-> reply]

\* ws_stream.next().await
C_Recv ==
    /\ chat.pc = "loop"
    /\ chat.received < MaxClient
    /\ \E msg \in ClientMessages :
          chat' = [chat EXCEPT
                     !.received = @ + 1,
                     !.cur = msg,
                     !.pc = CASE msg.type = "rate" -> "rate"
                              [] msg.type = "message" -> "store_user"
                              [] OTHER -> "closed"]
    /\ UNCHANGED <<restVars, budget, user_article_views, chat_messages, ratings,
                   vector_updates, chan, fw, dg>>

\* UPDATE user_article_views SET rating = ? WHERE user_id = ? AND
\* article_id = ?; the result is dropped.
C_Rate ==
    /\ chat.pc = "rate"
    /\ \E ok \in Results :
          /\ Spend(ok)
          /\ ratings' =
                IF ok /\ ~ViewsUnique(chat.user_id, chat.cur.article_id)
                THEN [ratings EXCEPT ![<<chat.user_id, chat.cur.article_id>>] =
                                        chat.cur.rating]
                ELSE ratings
          /\ chat' = [chat EXCEPT !.pc = "loop",
                                  !.turns = Append(@, Turn(chat.cur, ok, "none",
                                                           "none"))]
    /\ UNCHANGED <<restVars, user_article_views, chat_messages, vector_updates,
                   chan, fw, dg>>

\* store_message(.., "user", ..): on an error the message is dropped.
C_StoreUser ==
    /\ chat.pc = "store_user"
    /\ \E ok \in Results :
          /\ Spend(ok)
          /\ chat_messages' =
                IF ok THEN Append(chat_messages, StoredMessage("user", "question"))
                ELSE chat_messages
          /\ chat' = IF ok THEN [chat EXCEPT !.pc = "respond"]
                     ELSE [chat EXCEPT !.pc = "loop",
                                       !.turns = Append(@, Turn(chat.cur, FALSE,
                                                                "none", "none"))]
    /\ UNCHANGED <<restVars, user_article_views, ratings, vector_updates, chan,
                   fw, dg>>

\* Variant: an LLM error ends the connection.
Response_Close(llm_ok) == IF llm_ok THEN "answer" ELSE "none"

\* match handle_chat_message(..) { Ok(resp) => resp, Err(e) => "Sorry, I
\* encountered an error processing your message." }
Response(llm_ok) == IF llm_ok THEN "answer" ELSE "apology"

\* handle_chat_message, or the fixed text when no provider is configured.
C_Respond ==
    /\ chat.pc = "respond"
    /\ \E llm_ok \in BOOLEAN :
          LET response == IF chat.provider THEN Response(llm_ok) ELSE "not_configured"
          IN  chat' = [chat EXCEPT
                         !.pc = IF response = "none" THEN "closed" ELSE "store_reply",
                         !.response = response,
                         !.llm = IF ~chat.provider THEN "none"
                                 ELSE IF llm_ok THEN "ok" ELSE "failed"]
    /\ UNCHANGED <<restVars, budget, user_article_views, chat_messages, ratings,
                   vector_updates, chan, fw, dg>>

\* store_message(.., "assistant", ..), whose error is only logged, then the
\* message event.
C_StoreReply ==
    /\ chat.pc = "store_reply"
    /\ \E ok \in Results :
          /\ Spend(ok)
          /\ chat_messages' =
                IF ok THEN Append(chat_messages,
                                  StoredMessage("assistant", chat.response))
                ELSE chat_messages
    /\ chan' = Send(chan, Event("message", chat.response))
    /\ chat' = [chat EXCEPT !.pc = "loop",
                            !.turns = Append(@, Turn(chat.cur, TRUE, chat.llm,
                                                     chat.response))]
    /\ UNCHANGED <<restVars, user_article_views, ratings, vector_updates, fw, dg>>

\* ------------------------------------------------------------------------
\* Specification of one connection to a session
\* ------------------------------------------------------------------------
\* Messages a session may hold when the client connects: none, or stored
\* within one second, or over several.
StoredSessions ==
    LET m(author, message, at) ==
           [session_id |-> ChatSession, author |-> author, message |-> message,
            created_at |-> at]
    IN  {<< >>,
         <<m("assistant", "completion", 0)>>,
         <<m("assistant", "completion", 0), m("user", "question", 0),
           m("assistant", "answer", 0)>>,
         <<m("assistant", "completion", 0), m("user", "question", 1),
           m("assistant", "apology", 1)>>}

\* The database of a user subscribed to one feed that holds both articles,
\* each personalized for the user; no task of the worker or server runs.
InitSession ==
    /\ feeds = << NewFeedRow("fx") >>
    /\ subscriptions = << [user_id |-> ChatUser, feed_id |-> 1] >>
    /\ articles = << "a", "b" >>
    /\ article_occurrences = [p \in OccPairs |-> IF p[2] = 1 THEN 1 ELSE 0]
    /\ user_article_summaries =
          [k \in SummaryKeys |-> IF k[1] = ChatUser THEN StoredSummary(k[1], 50)
                                 ELSE NoSummary]
    /\ user_article_views = {}
    /\ ws = [s \in Sessions |-> WsIdle]
    /\ InitPipeline
    /\ worker = [pc |-> "select", rows |-> << >>]
    /\ manual = ManualIdle
    /\ store = [t \in Tasks |-> StoreIdle]
    /\ cf = [r \in Requests |-> CfIdle]
    /\ tick = NoTick
    /\ lastCommit = [t \in Tasks |-> NoCommit]
    /\ budget = [Budget(0, 0, 0, 0) EXCEPT !.faults = MaxFaults]
    /\ fst = FetchStart
    /\ fresp = << >>
    /\ ratings = [k \in SummaryKeys |-> 0]
    /\ vector_updates = << >>
    /\ chan = << >>
    /\ fw = FwIdle
    /\ sd = SdIdle
    /\ InitLib

InitChat ==
    /\ InitSession
    /\ pr = PrIdle
    /\ chat_messages \in StoredSessions
    /\ now = IF chat_messages = << >> THEN 0
             ELSE chat_messages[Len(chat_messages)].created_at
    /\ \E provider \in BOOLEAN, language \in {"en", "fr"} :
          chat = [ChatIdle EXCEPT !.provider = provider, !.language = language]
    /\ dg = [DgIdle EXCEPT !.replies = {LlmErr, LlmOk(<<"TITLE:", "w", "SUMMARY:", "w">>)}]

NextChat ==
    \/ C_Connect
    \/ C_Recv
    \/ C_Rate
    \/ C_StoreUser
    \/ C_Respond
    \/ C_StoreReply
    \/ D_Profile
    \/ D_Query
    \/ D_Refine
    \/ D_View
    \/ D_Complete
    \/ FW_Forward
    \/ FW_End

SpecChat == InitChat /\ [][NextChat]_vars

\* ------------------------------------------------------------------------
\* Specification of the digest task under every refinement reply
\* ------------------------------------------------------------------------
InitCards ==
    /\ InitSession
    /\ pr = PrIdle
    /\ chat_messages = << >>
    /\ now = 0
    /\ chat = [ChatIdle EXCEPT !.pc = "loop", !.user_id = ChatUser]
    /\ \E lang \in {"en", "fr"} :
          dg = [DgIdle EXCEPT !.pc = "query", !.user_id = ChatUser,
                              !.lang = lang, !.replies = Replies]

NextCards == D_Query \/ D_Refine \/ D_View \/ D_Complete

SpecCards == InitCards /\ [][NextCards]_vars

\* ------------------------------------------------------------------------
\* generate_press_review (press_review.rs): the word budget of the digest
\* ------------------------------------------------------------------------
MinTargetWords == 100

MaxTargetWords == 3000

\* The overshoot the budget admits once three articles are in.
OvershootWords == 200

MinReviewArticles == 3

\* Candidate articles of one press review.
MaxScored == 4

\* ((duration_seconds as f64 / 60.0) / 2.0 * reading_speed) as usize, which
\* truncates and saturates at 0, then clamp(100, 3000)
TargetWords(duration_seconds, reading_speed) ==
    LET raw == IF duration_seconds * reading_speed <= 0 THEN 0
               ELSE (duration_seconds * reading_speed) \div 120
    IN  Min(Max(raw, MinTargetWords), MaxTargetWords)

\* if current_words >= target_words && article_count >= 3 { break; }
BudgetReached(st) ==
    st.current_words >= st.target_words /\ st.article_count >= MinReviewArticles

\* Variant: no article is refused for its size.
OverBudget_Never(st, word_count) == FALSE

\* if current_words + word_count > target_words + 200 && article_count >= 3
\* { break; }
OverBudget(st, word_count) ==
    /\ st.current_words + word_count > st.target_words + OvershootWords
    /\ st.article_count >= MinReviewArticles

\* The profile is read, the candidates are scored and sorted, the target is
\* computed; without candidates the call returns at once.
PR_Start ==
    /\ pr.pc = "start"
    /\ pr' = [pr EXCEPT !.pc = IF pr.scored = << >> THEN "done" ELSE "loop",
                        !.target_words = TargetWords(pr.duration_seconds,
                                                     pr.reading_speed)]
    /\ UNCHANGED <<libVars, now, dbVars, taskVars, histVars, fetchVars, pipeVars,
                   chat_messages, ratings, vector_updates, chan, fw, chat, dg, sd>>

\* One iteration of the budgeting loop over the scored articles.
PR_Article ==
    /\ pr.pc = "loop"
    /\ pr' = IF pr.scored = << >> \/ BudgetReached(pr)
                \/ OverBudget(pr, Head(pr.scored))
             THEN [pr EXCEPT !.pc = "done"]
             ELSE [pr EXCEPT !.scored = Tail(@),
                             !.ids = Tail(@),
                             !.digest = Append(@, Head(pr.ids)),
                             !.current_words = @ + Head(pr.scored),
                             !.article_count = @ + 1]
    /\ UNCHANGED <<libVars, now, dbVars, taskVars, histVars, fetchVars, pipeVars,
                   chat_messages, ratings, vector_updates, chan, fw, chat, dg, sd>>

\* Words of one article_text: headline, bullets and the source line.
WordCounts == {20, 150, 400}

\* Sessions of half a minute to two hours, slow to fast readers.
Durations == {30, 60, 600, 1200, 7200}

ReadingSpeeds == {150, 250, 400}

InitReview ==
    /\ InitSession
    /\ chat_messages = << >>
    /\ now = 0
    /\ chat = ChatIdle
    /\ dg = DgIdle
    /\ \E d \in Durations, r \in ReadingSpeeds, n \in 0..MaxScored :
          \E w \in [1..n -> WordCounts] :
             pr = [PrIdle EXCEPT !.pc = "start", !.duration_seconds = d,
                                 !.reading_speed = r, !.scored = w,
                                 !.ids = [i \in 1..n |-> i]]

NextReview == PR_Start \/ PR_Article

\* The rows of ranked_articles for user u: one per unread personalized
\* summary and subscribed feed the article occurs in.  The window of 30
\* rows per feed is wider than the tables considered.
PressReviewRows(u) ==
    {r \in (DOMAIN articles) \X (DOMAIN feeds) :
        /\ user_article_summaries[<<u, r[1]>>].present
        /\ article_occurrences[r] > 0
        /\ Subscribed(u, r[2])
        /\ NotViewed(u, r[1], 0)}

\* scored_articles after the sort: the rows have equal scores here, and
\* are taken by article and feed.
Scored(rows) ==
    [i \in 1..Cardinality(rows) |->
       CHOOSE r \in rows :
          Cardinality({q \in rows : q[1] < r[1] \/ (q[1] = r[1] /\ q[2] < r[2])})
             = i - 1]

\* The profile, the candidate query and the scoring loop of one call.
PR_Candidates ==
    /\ pr.pc = "idle"
    /\ \E u \in Users :
          LET scored == Scored(PressReviewRows(u))
          IN  pr' = [PrIdle EXCEPT
                       !.pc = "start",
                       !.duration_seconds = 600,
                       !.reading_speed = 250,
                       !.scored = [i \in DOMAIN scored |-> 150],
                       !.ids = [i \in DOMAIN scored |-> scored[i][1]]]
    /\ UNCHANGED <<libVars, now, dbVars, taskVars, histVars, fetchVars, pipeVars,
                   chat_messages, ratings, vector_updates, chan, fw, chat, dg, sd>>

NextCandidates == PR_Candidates \/ PR_Start \/ PR_Article

SpecCandidates == InitDigest /\ [][NextCandidates]_vars

SpecReview == InitReview /\ [][NextReview]_vars

\* ------------------------------------------------------------------------
\* Shutdown (main.rs): shutdown_notify, the worker's select! and main's wait
\* ------------------------------------------------------------------------
\* Notify::notify_waiters wakes the Notified futures that exist at the call
\* and stores no permit: the worker receives it only inside its select!.
notify_waiters(w) == IF w.pc = "tick_end" THEN [w EXCEPT !.pc = "exited"] ELSE w

\* timeout(Duration::from_secs(20), handle) elapses unless the worker's
\* task has finished.
Timeout(w) == w.pc # "exited"

\* The HTTP server has stopped: main signals the worker and starts to wait
\* for its task.
SD_Notify ==
    /\ sd.main = "serving"
    /\ sd' = [raised |-> TRUE, main |-> "waiting"]
    /\ worker' = notify_waiters(worker)
    /\ UNCHANGED <<libVars, now, dbVars, manual, store, cf, histVars, fetchVars, pipeVars,
                   chat_messages, ratings, vector_updates, chan, fw, chat, dg, pr>>

\* The worker's task finished within the 20 seconds: "worker exited cleanly".
SD_Joined ==
    /\ sd.main = "waiting"
    /\ ~Timeout(worker)
    /\ sd' = [sd EXCEPT !.main = "done"]
    /\ UNCHANGED <<libVars, now, dbVars, taskVars, histVars, fetchVars, pipeVars,
                   chat_messages, ratings, vector_updates, chan, fw, chat, dg, pr>>

\* The wait timed out: main returns and the runtime drops the worker's task
\* wherever it is, with the store call it may be in.
SD_Timeout ==
    /\ sd.main = "waiting"
    /\ Timeout(worker)
    /\ sd' = [sd EXCEPT !.main = "done"]
    /\ worker' = [worker EXCEPT !.pc = "aborted"]
    /\ store' = [store EXCEPT !["worker"] = StoreIdle]
    /\ UNCHANGED <<libVars, now, dbVars, manual, cf, histVars, fetchVars, pipeVars,
                   chat_messages, ratings, vector_updates, chan, fw, chat, dg, pr>>

InitShutdown ==
    /\ InitCommon
    /\ \E i \in InitIntervals, a \in BOOLEAN :
          feeds = << [url |-> "fx", next_poll_at |-> NULL,
                      poll_interval_minutes |-> i, adaptive_scheduling |-> a] >>
    /\ budget = Budget(MaxTicks, 0, 0, 0)

NextShutdown ==
    \/ W_SelectDue
    \/ W_Fetch
    \/ W_Commit
    \/ W_Backoff
    \/ W_Sleep
    \/ S_Select("worker")
    \/ S_Insert("worker")
    \/ S_Occurrence("worker")
    \/ SD_Notify
    \/ SD_Joined
    \/ SD_Timeout

SpecShutdown == InitShutdown /\ [][NextShutdown]_vars

\* ------------------------------------------------------------------------
\* RemoteLlmProvider::generate (llm/remote.rs)
\* ------------------------------------------------------------------------
\* default_timeout: Duration::from_secs(30)
DefaultTimeout == 30

\* request.timeout_seconds: None (0 here) or Some(n).
TimeoutSeconds == {0, 1}

\* request.timeout_seconds.map(Duration::from_secs).unwrap_or(default_timeout)
RequestTimeout(timeout_seconds) ==
    IF timeout_seconds = 0 THEN DefaultTimeout ELSE timeout_seconds

\* Seconds after which a part of the response may arrive.
Times == {0, 2, 29, 31}

Arrivals == {NoArrival} \cup [arrives : {TRUE}, t : Times]

HttpStatuses == {200, 201, 304, 429, 500}

\* tokio::time::timeout(timeout, fut): Err(Elapsed) unless fut completes
\* before the deadline.
Elapsed(at, timeout) == ~at.arrives \/ at.t >= timeout

Ok == [kind |-> "ok", msg |-> "", status |-> 0]

Err(msg, status) == [kind |-> "err", msg |-> msg, status |-> status]

\* generate builds the request body and sends the one POST of the call.
RP_Send ==
    /\ rp.pc \in {"idle", "returned"}
    /\ rp.calls < MaxGenerate
    /\ \E timeout_seconds \in TimeoutSeconds :
          rp' = [RpIdle EXCEPT !.pc = "sent",
                               !.timeout = RequestTimeout(timeout_seconds),
                               !.requests = rp.requests + 1,
                               !.calls = rp.calls + 1]
    /\ UNCHANGED <<now, dbVars, taskVars, histVars, fetchVars, pipeVars,
                   chat_messages, ratings, vector_updates, chan, fw, chat, dg,
                   pr, sd, ej, sc, uv, emb>>

\* send() under the timeout: it resolves when the status line and headers
\* are there, fails when the connection does, or is cut at the deadline.
RP_Response ==
    /\ rp.pc = "sent"
    /\ \E head \in Arrivals, connected \in BOOLEAN, status \in HttpStatuses :
          rp' = IF Elapsed(head, rp.timeout)
                THEN [rp EXCEPT !.pc = "returned", !.head = head,
                                !.result = Err("LLM request timed out", 0)]
                ELSE IF ~connected
                THEN [rp EXCEPT !.pc = "returned", !.head = head,
                                !.result = Err("LLM HTTP request failed", 0)]
                ELSE [rp EXCEPT !.pc = IF is_success(status) THEN "json"
                                       ELSE "text",
                                !.head = head, !.status = status]
    /\ UNCHANGED <<now, dbVars, taskVars, histVars, fetchVars, pipeVars,
                   chat_messages, ratings, vector_updates, chan, fw, chat, dg,
                   pr, sd, ej, sc, uv, emb>>

\* response.text().await.unwrap_or_default(), then bail!("LLM API error
\* {}: {}", status, body): the await ends when the body has arrived or the
\* connection broke, and waits as long as neither happens.
RP_ErrorBody ==
    /\ rp.pc = "text"
    /\ \E body \in Arrivals :
          /\ body.arrives
          /\ body.t >= rp.head.t
          /\ rp' = [rp EXCEPT !.pc = "returned", !.body = body,
                               !.result = Err("LLM API error", rp.status)]
    /\ UNCHANGED <<now, dbVars, taskVars, histVars, fetchVars, pipeVars,
                   chat_messages, ratings, vector_updates, chan, fw, chat, dg,
                   pr, sd, ej, sc, uv, emb>>

\* response.json().await, outside the timeout: the body parsed as an
\* OpenAiResponse, and its first choice.
RP_Json ==
    /\ rp.pc = "json"
    /\ \E body \in Arrivals, parsed \in {"choices", "empty", "invalid"} :
          /\ body.arrives
          /\ body.t >= rp.head.t
          /\ rp' = [rp EXCEPT !.pc = "returned", !.body = body,
                        !.result =
                           CASE parsed = "invalid" ->
                                   Err("Failed to parse LLM response", 0)
                             [] parsed = "empty" ->
                                   Err("LLM response has no choices", 0)
                             [] OTHER -> Ok]
    /\ UNCHANGED <<now, dbVars, taskVars, histVars, fetchVars, pipeVars,
                   chat_messages, ratings, vector_updates, chan, fw, chat, dg,
                   pr, sd, ej, sc, uv, emb>>

InitRemote ==
    /\ InitCommon
    /\ feeds = << NewFeedRow("fx") >>
    /\ budget = Budget(0, 0, 0, 0)

NextRemote == RP_Send \/ RP_Response \/ RP_ErrorBody \/ RP_Json

SpecRemote == InitRemote /\ [][NextRemote]_vars

\* ------------------------------------------------------------------------
\* extract_json_from_text (llm/mod.rs)
\* ------------------------------------------------------------------------
\* A text is a sequence of tokens: "FENCEjson" (three backticks and the tag
\* json), "FENCE" (three backticks),
\* the braces, "w" (a word) and "_" (white space).  The text after the
\* three backticks of a tagged fence starts with the word "json".
JsonTokens == {"FENCEjson", "FENCE", "{", "}", "w", "_"}

MaxText == 4

Texts == UNION {[1..n -> JsonTokens] : n \in 0..MaxText}

ByteLen(t) ==
    CASE t = "FENCEjson" -> 7
      [] t = "FENCE" -> 3
      [] t \in {"w", "json"} -> 4
      [] OTHER -> 1

RECURSIVE Bytes(_)
Bytes(c) == IF c = << >> THEN 0 ELSE ByteLen(Head(c)) + Bytes(Tail(c))

\* The byte offset of token i.
Offset(text, i) == Bytes(SubSeq(text, 1, i - 1))

\* text.find("FENCE"): the first token that starts with three backticks.
FindFence(text) ==
    IF \E i \in DOMAIN text : text[i] \in {"FENCE", "FENCEjson"}
    THEN CHOOSE i \in DOMAIN text :
            /\ text[i] \in {"FENCE", "FENCEjson"}
            /\ \A j \in 1..(i - 1) : text[j] \notin {"FENCE", "FENCEjson"}
    ELSE 0

\* text.rfind(m): the last position of m in text, 0 for None
RFind(text, m) ==
    IF \E i \in DOMAIN text : text[i] = m
    THEN CHOOSE i \in DOMAIN text :
            text[i] = m /\ \A j \in (i + 1)..Len(text) : text[j] # m
    ELSE 0

\* &text[start + 3..] where start is the fence at token i.
AfterFence(text, i) ==
    (IF text[i] = "FENCEjson" THEN <<"json">> ELSE << >>)
       \o SubSeq(text, i + 1, Len(text))

\* &text[start..=end]: the slice, or a panic when start > end + 1.
SliceInclusive(text, i, j) ==
    IF Offset(text, i) > Offset(text, j) + 1 THEN Panic
    ELSE Some(SubSeq(text, i, j))

BraceSlice(text) ==
    IF Find(text, "{") # 0 /\ RFind(text, "}") # 0
    THEN SliceInclusive(text, Find(text, "{"), RFind(text, "}"))
    ELSE None

PlainFence(text) ==
    LET start == FindFence(text)
        rest == AfterFence(text, start)
        end == FindFence(rest)
    IN  IF start # 0 /\ end # 0
        THEN Some(Trim(SubSeq(rest, 1, end - 1)))
        ELSE BraceSlice(text)

extract_json_from_text(text) ==
    LET start == Find(text, "FENCEjson")
        rest == SubSeq(text, start + 1, Len(text))
        end == FindFence(rest)
    IN  IF start # 0 /\ end # 0
        THEN Some(Trim(SubSeq(rest, 1, end - 1)))
        ELSE PlainFence(text)

EJ_Call ==
    /\ ej.calls < MaxExtract
    /\ \E text \in Texts :
          ej' = [text |-> text, result |-> extract_json_from_text(text),
                 calls |-> ej.calls + 1]
    /\ UNCHANGED <<now, dbVars, taskVars, histVars, fetchVars, pipeVars,
                   chat_messages, ratings, vector_updates, chan, fw, chat, dg,
                   pr, sd, rp, sc, uv, emb>>

NextExtract == EJ_Call

SpecExtract == InitRemote /\ [][NextExtract]_vars

\* ------------------------------------------------------------------------
\* generate_press_review (press_review.rs): the final score of a candidate
\* ------------------------------------------------------------------------
\* Times are seconds.  Scores are integers: relevance_score and
\* semantic_similarity in tenths, the freshness boost 2^(-age / t_half) in
\* units of 2^(-MaxHalvings); ages are whole multiples of the half-life.
MaxHalvings == 4

RECURSIVE Pow2(_)
Pow2(n) == IF n = 0 THEN 1 ELSE 2 * Pow2(n - 1)

\* (avg_interval * 10.0).clamp(3600.0, 31536000.0), for two cadences
HalfLives == {3600, 7200}

ScoreTimes == {0, 7200, 14400}

\* let mut semantic_similarity = 0.5
NeutralSimilarity == 5

\* A row of ranked_articles with the article's first_seen_at and the
\* similarity the vector query gives for it.
Candidates ==
    {c \in [relevance_score : {0, 5, 10},
             semantic_similarity : {0, NeutralSimilarity, 10},
             created_at : ScoreTimes, first_seen_at : ScoreTimes] :
        c.first_seen_at <= c.created_at}

\* age_secs = (Utc::now() - created_at).num_seconds(), where created_at is
\* the created_at of the user_article_summaries row.
AgeSecs(row, t) == t - row.created_at

\* 2.0_f64.powf(-decay_exponent)
FreshnessBoost(age_secs, t_half) == Pow2(MaxHalvings - (age_secs \div t_half))

\* (relevance_score * 0.4) + (semantic_similarity * 0.6)
BlendedScore(row) == 4 * row.relevance_score + 6 * row.semantic_similarity

FinalScore(row, t_half, t) ==
    BlendedScore(row) * FreshnessBoost(AgeSecs(row, t), t_half)

\* The scoring loop over the rows of one feed.
SC_Score ==
    /\ sc.calls < MaxReviews
    /\ \E a \in Candidates, b \in Candidates, t_half \in HalfLives :
          sc' = [rows |-> <<a, b>>, t_half |-> t_half,
                 scored |-> [i \in 1..2 |->
                               FinalScore(<<a, b>>[i], t_half, 14400)],
                 calls |-> sc.calls + 1]
    /\ UNCHANGED <<now, dbVars, taskVars, histVars, fetchVars, pipeVars,
                   chat_messages, ratings, vector_updates, chan, fw, chat, dg,
                   pr, sd, rp, ej, uv, emb>>

NextScore == SC_Score

SpecScore == InitRemote /\ [][NextScore]_vars

\* ------------------------------------------------------------------------
\* update_user_vector_from_interaction (personalize_worker.rs)
\* ------------------------------------------------------------------------
\* Vector components are integers that are multiples of 10, so that the
\* blend with alpha = 0.1 * weight is exact; weight is 1 (view) or 2 (rate,
\* chat).
Components == {0, 10, 20}

MaxDim == 3

Vectors == UNION {[1..n -> Components] : n \in 1..MaxDim}

Weights == {1, 2}

\* u * (1.0 - alpha) + a * alpha with alpha = 0.1 * weight
Blend(u, a, weight) == (u * (10 - weight) + a * weight) \div 10

\* uv.iter().zip(article_vec.iter()): pairs up to the shorter length.
ZipLen(u, a) == IF Len(u) <= Len(a) THEN Len(u) ELSE Len(a)

NewVec(user_vec, article_vec, weight) ==
    IF user_vec.kind = "some"
    THEN [i \in 1..ZipLen(user_vec.value, article_vec) |->
            Blend(user_vec.value[i], article_vec[i], weight)]
    ELSE article_vec

\* One call: the user's row of vec_users, the article's row of
\* vec_articles if it has one, and INSERT OR REPLACE of the new vector.
UV_Update ==
    /\ uv.calls < MaxUpdates
    /\ \E user_vec \in {None} \cup {Some(v) : v \in Vectors},
          article_vec \in {None} \cup {Some(v) : v \in Vectors},
          weight \in Weights :
          uv' = [user_vec |-> user_vec, article_vec |-> article_vec,
                 weight |-> weight,
                 vec_users |-> IF article_vec.kind = "none" THEN user_vec
                               ELSE Some(NewVec(user_vec, article_vec.value,
                                                weight)),
                 calls |-> uv.calls + 1]
    /\ UNCHANGED <<now, dbVars, taskVars, histVars, fetchVars, pipeVars,
                   chat_messages, ratings, vector_updates, chan, fw, chat, dg,
                   pr, sd, rp, ej, sc, emb>>

NextVector == UV_Update

SpecVector == InitRemote /\ [][NextVector]_vars

\* ------------------------------------------------------------------------
\* process_missing_embeddings (processing.rs), spawned by every tick
\* ------------------------------------------------------------------------
\* SELECT a.id .. LEFT JOIN vec_articles v .. WHERE v.article_id IS NULL
\* ORDER BY a.first_seen_at DESC LIMIT 20
MissingEmbeddings ==
    LET S == {a \in DOMAIN articles : emb.vec_articles[a] = 0}
    IN  [i \in 1..Cardinality(S) |->
           CHOOSE a \in S : Cardinality({b \in S : b > a}) = i - 1]

\* for article in rows: the next row, or Ok(count) after the last.
NextRow_Embed(st, rows) ==
    IF rows = << >> THEN [st EXCEPT !.pc = "done", !.rows = << >>, !.ret = "ok"]
    ELSE [st EXCEPT !.pc = "embed", !.rows = rows]

\* The task a tick spawns runs the SELECT; a failed SELECT returns Err.
E_Select(t) ==
    /\ emb.tasks[t].pc = "idle"
    /\ \E ok \in BOOLEAN :
          emb' = [emb EXCEPT !.tasks[t] =
                    IF ok THEN NextRow_Embed(@, MissingEmbeddings)
                    ELSE [@ EXCEPT !.pc = "failed", !.ret = "select"]]
    /\ UNCHANGED <<now, dbVars, taskVars, histVars, fetchVars, pipeVars,
                   chat_messages, ratings, vector_updates, chan, fw, chat, dg,
                   pr, sd, rp, ej, sc, uv>>

\* provider.embed(&text_to_embed): Err is logged and the loop goes on.
E_Embed(t) ==
    /\ emb.tasks[t].pc = "embed"
    /\ \E ok \in BOOLEAN :
          LET a == Head(emb.tasks[t].rows)
          IN  emb' = IF ok
                     THEN [emb EXCEPT !.embedded[a] = @ + 1,
                                      !.tasks[t].pc = "insert"]
                     ELSE [emb EXCEPT !.tasks[t] =
                              NextRow_Embed(@, Tail(emb.tasks[t].rows))]
    /\ UNCHANGED <<now, dbVars, taskVars, histVars, fetchVars, pipeVars,
                   chat_messages, ratings, vector_updates, chan, fw, chat, dg,
                   pr, sd, rp, ej, sc, uv>>

\* What the table does with a second row for an article: the choice is
\* made once.
Uniqueness ==
    IF emb.unique = "unknown" THEN {"unique", "not_unique"} ELSE {emb.unique}

\* INSERT INTO vec_articles (article_id, embedding) VALUES (?, ?) followed
\* by `?`: a constraint error ends the call with Err.
E_Insert(t) ==
    /\ emb.tasks[t].pc = "insert"
    /\ LET a == Head(emb.tasks[t].rows)
       IN  IF emb.vec_articles[a] = 0
           THEN emb' = [emb EXCEPT !.vec_articles[a] = 1,
                                   !.tasks[t] =
                                      NextRow_Embed([@ EXCEPT !.count = @ + 1],
                                                    Tail(emb.tasks[t].rows))]
           ELSE \E u \in Uniqueness :
                   emb' = IF u = "unique"
                          THEN [emb EXCEPT !.unique = u,
                                           !.tasks[t].pc = "failed",
                                           !.tasks[t].ret = "duplicate"]
                          ELSE [emb EXCEPT !.unique = u,
                                           !.vec_articles[a] = @ + 1,
                                           !.tasks[t] =
                                              NextRow_Embed(
                                                 [@ EXCEPT !.count = @ + 1],
                                                 Tail(emb.tasks[t].rows))]
    /\ UNCHANGED <<now, dbVars, taskVars, histVars, fetchVars, pipeVars,
                   chat_messages, ratings, vector_updates, chan, fw, chat, dg,
                   pr, sd, rp, ej, sc, uv>>

InitEmbed ==
    /\ InitSession
    /\ chat_messages = << >>
    /\ now = 0
    /\ chat = ChatIdle
    /\ dg = DgIdle
    /\ pr = PrIdle

NextEmbed ==
    \/ \E t \in EmbTasks : E_Select(t)
    \/ \E t \in EmbTasks : E_Embed(t)
    \/ \E t \in EmbTasks : E_Insert(t)

SpecEmbed == InitEmbed /\ [][NextEmbed]_vars

\* ========================================================================
\* Properties
\* ========================================================================
Count(seq, x) == Cardinality({k \in DOMAIN seq : seq[k] = x})

InRange(i) == i >= MinInterval /\ i <= MaxInterval

\* C1 (Spec): the poll interval of every feed stays within [15, 1440] minutes
\* in every reachable state, whatever ticks and manual fetches have run.
C1_IntervalInRange ==
    \A i \in DOMAIN feeds : InRange(feeds[i].poll_interval_minutes)

\* A feed at the cap backed off by the scheduler after a manual fetch ran too.
C1_Witness ==
    /\ lastCommit["worker"].outcome = "fetch_err"
    /\ lastCommit["worker"].prev = MaxInterval
    /\ lastCommit["manual"].outcome # "none"
    /\ feeds[1].poll_interval_minutes = MaxInterval

\* C2 as stated (Spec): after a successful fetch in a tick the interval
\* written is max(15, prev/2) when the feed is adaptive and the store call
\* inserted at least one article, min(1440, prev + prev/2) when it is adaptive
\* and the call inserted none, and prev when it is not adaptive.  prev is the
\* interval the tick read for the feed.
C2_Original ==
    LET c == lastCommit["worker"]
    IN  c.outcome \in {"ok_new", "ok_none", "store_err"} =>
           c.interval = IF ~c.adaptive THEN c.prev
                        ELSE IF c.inserted >= 1
                             THEN Max(MinInterval, c.prev \div 2)
                             ELSE Min(MaxInterval, c.prev + (c.prev \div 2))

\* C2 amended (Spec): the interval is halved (floor 15) when the feed is
\* adaptive and store_feed_items returned Ok with at least one new id; it
\* grows by half (cap 1440) when the feed is adaptive and the call returned Ok
\* with no new id or returned an error, even after inserting articles; it is
\* unchanged when the feed is not adaptive.
C2_Amended ==
    LET c == lastCommit["worker"]
    IN  c.outcome \in {"ok_new", "ok_none", "store_err"} =>
           /\ c.outcome = "ok_new" => c.inserted >= 1
           /\ c.outcome = "ok_none" => c.inserted = 0
           /\ c.interval = IF ~c.adaptive THEN c.prev
                           ELSE IF c.outcome = "ok_new"
                                THEN Max(MinInterval, c.prev \div 2)
                                ELSE Min(MaxInterval, c.prev + (c.prev \div 2))

\* An adaptive feed at 60 minutes got a new article and is now at 30.
C2_Witness ==
    /\ lastCommit["worker"].outcome = "ok_new"
    /\ lastCommit["worker"].adaptive
    /\ lastCommit["worker"].prev = DefaultInterval
    /\ lastCommit["worker"].interval = 30

\* C3 (Spec): after a failed fetch in a tick the interval written is
\* min(2 * prev, 1440) and next_poll_at is now plus that new interval.
C3_FailureDoubles ==
    LET c == lastCommit["worker"]
    IN  c.outcome = "fetch_err" =>
           /\ c.interval = Min(2 * c.prev, MaxInterval)
           /\ c.offset = c.interval

\* A feed at 60 minutes failed and is rescheduled 120 minutes later.
C3_Witness ==
    /\ lastCommit["worker"].outcome = "fetch_err"
    /\ lastCommit["worker"].prev = DefaultInterval
    /\ lastCommit["worker"].interval = 120
    /\ lastCommit["worker"].offset = 120

\* C4 (Spec): for the same interval and flag read and the same outcome, the
\* manual fetch writes the same interval and the same next_poll_at offset as
\* the scheduler tick.
C4_ManualMatchesScheduler ==
    LET w == lastCommit["worker"]
        m == lastCommit["manual"]
    IN  (/\ w.outcome # "none"
         /\ m.outcome = w.outcome
         /\ m.prev = w.prev
         /\ m.adaptive = w.adaptive)
        => (m.interval = w.interval /\ m.offset = w.offset)

SnapshotDue ==
    {i \in DOMAIN tick.snapshot :
        \/ tick.snapshot[i] = NULL
        \/ tick.snapshot[i] # NULL /\ tick.snapshot[i] <= tick.now}

\* C6 (SpecFeeds): a tick fetches exactly the feeds whose next_poll_at was
\* NULL or not later than the tick's now; a feed scheduled in the future is
\* not fetched, and no feed that existed at the start of the tick is left
\* with next_poll_at NULL when the tick ends.
C6_FetchedIffDue ==
    /\ tick.fetched \subseteq SnapshotDue
    /\ worker.pc = "tick_end" =>
          /\ tick.fetched = SnapshotDue
          /\ \A i \in DOMAIN tick.snapshot : feeds[i].next_poll_at # NULL

\* The second tick skipped feed 1, scheduled in the future, and fetched the
\* feed that POST /feeds had created in between.
C6_Witness ==
    /\ worker.pc = "tick_end"
    /\ Len(tick.snapshot) = 2
    /\ tick.snapshot[1] > tick.now
    /\ tick.snapshot[2] = NULL
    /\ tick.fetched = {2}

Transient(resp) ==
    \/ resp.kind = "network"
    \/ resp.kind = "http" /\ resp.status >= 500 /\ resp.status <= 599
    \/ resp.kind = "http" /\ resp.status = 429

GoodFeed(resp) ==
    resp.kind = "http" /\ resp.status >= 200 /\ resp.status <= 299 /\ resp.body = "feed"

\* C7 (SpecFetch): an attempt is followed by another one only if it ended in
\* a network error, a 5xx or a 429; after any other response the call has
\* returned, with an error unless the response was a 2xx with a parsable feed.
C7_RetryOnlyTransient ==
    /\ \A k \in 1..(Len(fresp) - 1) : Transient(fresp[k])
    /\ (Len(fresp) >= 1 /\ ~Transient(fresp[Len(fresp)])) =>
          /\ fst.ret # "running"
          /\ fst.ret = "ok" <=> GoodFeed(fresp[Len(fresp)])

\* A 404 on the first attempt ended the call with an error.
C7_Witness ==
    /\ Len(fresp) = 1
    /\ fresp[1].status = 404
    /\ fst.ret = "err"
    /\ fst.err.status = 404

BackoffSchedule == <<1, 2, 4>>

AllStatus(status) ==
    \A k \in DOMAIN fresp : fresp[k].kind = "http" /\ fresp[k].status = status

\* C8 (SpecFetch): a call makes at most 3 attempts; it has slept once before
\* each attempt but the first, the delays being 1 s, 2 s, 4 s in that order;
\* after three 503 answers it has slept twice and returns the 503 error.
C8_BoundedBackoff ==
    /\ Len(fresp) <= 3
    /\ fst.ret = "running" => fst.attempt = Len(fresp) + 1
    /\ Len(fst.slept) = Max(Len(fresp), 1) - 1
    /\ \A k \in DOMAIN fst.slept : fst.slept[k] = BackoffSchedule[k]
    /\ (Len(fresp) = 3 /\ AllStatus(503) /\ fst.ret # "running") =>
          /\ fst.ret = "err"
          /\ fst.err = [kind |-> "server_error", status |-> 503]
          /\ fst.slept = <<1, 2>>

\* Three 503 answers: two sleeps, then the error is returned.
C8_Witness ==
    /\ Len(fresp) = 3
    /\ AllStatus(503)
    /\ fst.ret = "err"
    /\ fst.err.status = 503
    /\ fst.slept = <<1, 2>>

\* C9 (SpecStore): no two rows of articles have the same canonical_url.
C9_UniqueCanonicalUrl ==
    \A i, j \in DOMAIN articles : i # j => articles[i] # articles[j]

\* Two concurrent calls, for different feeds, raced on the same URL: one
\* inserted it and the other got the constraint violation.
C9_Witness ==
    /\ store["worker"].pc = "err"
    /\ store["manual"].feed_id # store["worker"].feed_id
    /\ store["manual"].new_article_ids # << >>
    /\ articles[Head(store["manual"].new_article_ids)] = Head(store["worker"].entries)

\* C10 as stated (SpecStore): each (article_id, feed_id) pair has at most
\* one row in article_occurrences.
C10_OccurrenceOnce ==
    \A p \in OccPairs : article_occurrences[p] <= 1

\* A POST /feeds request that has been answered.
Answered(r) == cf[r].pc = "idle" /\ cf[r].reply.status # "none"

\* C11 (SpecSubs): no two subscriptions share (user_id, feed_id); a POST
\* /feeds received when its user is already subscribed to its URL is answered
\* "Already subscribed" with the feed's id and the id of the subscription
\* that existed, which is still the only one of that user to that feed.
C11_SubscribeTwiceNoOp ==
    /\ \A i, j \in DOMAIN subscriptions :
          i # j => subscriptions[i] # subscriptions[j]
    /\ \A r \in Requests :
          (Answered(r) /\ cf[r].prior # 0) =>
             /\ cf[r].reply =
                   Reply("Already subscribed", FeedIdByUrl(cf[r].url), cf[r].prior)
             /\ SubscriptionId(cf[r].user_id, cf[r].feed_id) = cf[r].prior

\* User 2 subscribed to "fx" by a first POST (row 2) and repeated the POST.
C11_Witness ==
    \E r \in Requests :
       /\ Answered(r)
       /\ cf[r].user_id = 2
       /\ cf[r].prior = 2
       /\ cf[r].reply.status = "Already subscribed"
       /\ cf[r].reply.subscription_id = 2
       /\ Len(subscriptions) = 2

\* C12 as stated (SpecSubs): once POST /feeds requests of two different
\* users for the same URL have been answered, feeds holds exactly one row for
\* that URL and both users have a subscription to that row.
C12_BothSubscribed ==
    \A r1, r2 \in Requests :
       (/\ Answered(r1) /\ Answered(r2)
        /\ cf[r1].user_id # cf[r2].user_id
        /\ cf[r1].url = cf[r2].url)
       => /\ Cardinality({i \in DOMAIN feeds : feeds[i].url = cf[r1].url}) = 1
          /\ SubscriptionId(cf[r1].user_id, FeedIdByUrl(cf[r1].url)) # 0
          /\ SubscriptionId(cf[r2].user_id, FeedIdByUrl(cf[r1].url)) # 0

Viewed(u, a) == \E v \in user_article_views : v[1] = u /\ v[2] = a

OccursInSubscription(u, a) ==
    \E i \in DOMAIN subscriptions :
       /\ subscriptions[i].user_id = u
       /\ article_occurrences[<<a, subscriptions[i].feed_id>>] >= 1

\* C14 (SpecDigest): every article the selection returns for a user, and
\* every article a session has selected for its user, occurs in at least one
\* feed that user is subscribed to.
C14_OnlySubscribedFeeds ==
    /\ \A u \in Users :
          /\ \A s \in Sessions : \A a \in Range(DigestQuery(u, s)) :
                OccursInSubscription(u, a)
          /\ \A a \in PressReviewCandidates(u) : OccursInSubscription(u, a)
    /\ \A s \in Sessions :
          \A a \in Range(ws[s].articles) \cup Range(ws[s].sent) :
             OccursInSubscription(ws[s].user_id, a)

\* User 1 has relevant summaries of both articles, unviewed; article 1 occurs
\* only in feed 2, to which user 1 is not subscribed, and was not selected.
C14_Witness ==
    /\ \E s \in Sessions :
          ws[s] = [pc |-> "done", user_id |-> 1, articles |-> << >>, sent |-> <<2>>]
    /\ user_article_summaries[<<1, 1>>].is_relevant
    /\ article_occurrences[<<1, 1>>] = 0
    /\ article_occurrences[<<1, 2>>] = 1
    /\ ~Subscribed(1, 2)
    /\ \A s \in Sessions : <<1, 1, s>> \notin user_article_views

\* Log entries of personalize_for_users about user u and article a.
EntriesOf(u, a) ==
    {i \in DOMAIN pz.log : pz.log[i].user_id = u /\ pz.log[i].article_id = a}

LastOf(S) == CHOOSE i \in S : \A j \in S : j <= i

StoredEntries(u, a) == {i \in EntriesOf(u, a) : pz.log[i].step = "stored"}

\* C15 (SpecPers): a user_article_summaries row exists only for a (user,
\* article) that an iteration stored; it has the score of the last such
\* iteration, which is at least 0.3, is_relevant true and the language and
\* complexity_level of the user's profile; an iteration whose evaluated
\* score is below 0.3 stores nothing.
C15_StoredOnlyWhenRelevant ==
    /\ \A k \in SummaryKeys :
          LET row == user_article_summaries[k]
              st == StoredEntries(k[1], k[2])
          IN  /\ row.present <=> st # {}
              /\ row.present =>
                    /\ row.relevance_score = pz.log[LastOf(st)].score
                    /\ row.relevance_score >= 30
                    /\ row.is_relevant
                    /\ row.language = Profile(k[1]).language
                    /\ row.complexity_level = Profile(k[1]).complexity_level
    /\ \A i \in DOMAIN pz.log :
          (pz.log[i].score # -1 /\ pz.log[i].score < 30) =>
             pz.log[i].step = "not_relevant"

\* User 1 got a row at exactly 0.3 with the profile's 'fr' and 'simple';
\* user 2 was evaluated at 0.29 and has no row.
C15_Witness ==
    /\ pz.pc = "done"
    /\ user_article_summaries[<<1, 1>>] =
          [present |-> TRUE, relevance_score |-> 30, is_relevant |-> TRUE,
           language |-> "fr", complexity_level |-> "simple"]
    /\ pz.log[Len(pz.log)].score = 29
    /\ pz.log[Len(pz.log)].user_id = 2
    /\ pz.log[Len(pz.log)].article_id = 1
    /\ ~user_article_summaries[<<2, 1>>].present

\* C16 (SpecPers): every user the call read from the users table gets one
\* loop iteration, in order, whatever failed for the users before: the call
\* ends only when no user is left.
C16_FailureDoesNotAbort ==
    LET n == Len(pz.fetched) - Len(pz.users)
        base == Len(pz.log) - n
    IN  /\ n >= 0 /\ base >= 0
        /\ \A i \in 1..n :
              /\ pz.log[base + i].user_id = pz.fetched[i]
              /\ pz.log[base + i].article_id = pz.article_id
        /\ pz.pc = "done" => pz.users = << >>
        /\ pz.pc = "loop" => pz.users # << >>

\* The relevance call failed for user 1 and user 2 was still stored.
C16_Witness ==
    /\ pz.pc = "done"
    /\ Len(pz.log) = 2
    /\ pz.log[1].user_id = 1
    /\ pz.log[1].step \in {"profile_err", "relevance_err", "personalize_err", "insert_err"}
    /\ pz.log[2].user_id = 2
    /\ pz.log[2].step = "stored"

\* ------------------------------------------------------------------------
\* Summarization jobs
\* ------------------------------------------------------------------------
Terminal == {"completed", "failed"}

\* The jobs of article a, as indices of processing_jobs.
JobsOf(a) == {j \in DOMAIN processing_jobs : processing_jobs[j].entity_id = a}

\* A step inserts jobs as pending and moves a job only pending -> running
\* or running -> completed / failed.
JobMoves ==
    \A j \in DOMAIN processing_jobs' :
       IF j \in DOMAIN processing_jobs
       THEN LET old == processing_jobs[j].status
                new == processing_jobs'[j].status
            IN  \/ new = old
                \/ old = "pending" /\ new = "running"
                \/ old = "running" /\ new \in Terminal
       ELSE processing_jobs'[j].status = "pending"

\* A step in which process_single_article returns leaves the job it
\* created in a terminal status.
ReturnedTerminal ==
    \A b \in Batches :
       (proc'[b].last # proc[b].last /\ proc'[b].last.job_id # 0)
          => processing_jobs'[proc'[b].last.job_id].status \in Terminal

\* C17: every ProcessingJob created by process_single_article moves only
\* pending -> running -> completed or failed, a terminal status never
\* changes again, and the job is in a terminal status whenever
\* process_single_article has returned.
C17_JobLifecycle == [][JobMoves /\ ReturnedTerminal]_vars

\* C18: when the summarization LLM call of a process_single_article call
\* fails (and nothing else does), the job of the call ends failed, no job
\* of the article is completed, and the article's article_summaries row
\* exists.
C18_LlmFailureFailsJob ==
    \A b \in Batches :
       (proc[b].last.llm = "failed" /\ budget.faults = MaxFaults)
          => /\ processing_jobs[proc[b].last.job_id].status = "failed"
             /\ \A j \in JobsOf(proc[b].last.article_id) :
                   processing_jobs[j].status # "completed"
             /\ article_summaries[proc[b].last.article_id] # "none"

\* C19: processing_status mirrors the job record: an article with a
\* completed job exists, has processing_status 'completed' and has an
\* article_summaries row; an article with processing_status 'completed'
\* has a completed job.
C19_StatusMirrorsJob ==
    /\ \A j \in DOMAIN processing_jobs :
          processing_jobs[j].status = "completed"
             => /\ processing_jobs[j].entity_id \in DOMAIN articles
                /\ processing_status[processing_jobs[j].entity_id] = "completed"
                /\ article_summaries[processing_jobs[j].entity_id] # "none"
    /\ \A a \in DOMAIN articles :
          processing_status[a] = "completed"
             => \E j \in JobsOf(a) : processing_jobs[j].status = "completed"

\* C20: each article is summarized at most once: no summarization run is
\* started for an article that already has a running or completed one.
C20_SummarizedAtMostOnce ==
    [][\A j \in DOMAIN processing_jobs' :
          j \notin DOMAIN processing_jobs
             => \A i \in JobsOf(processing_jobs'[j].entity_id) :
                   processing_jobs[i].status \notin {"running", "completed"}]_vars

\* ------------------------------------------------------------------------
\* Sessions
\* ------------------------------------------------------------------------
\* The reply has no usable TITLE:/TITRE: and SUMMARY: pair: a marker is
\* missing, SUMMARY: comes first, or a field between them is blank.
Unusable(content) ==
    LET t == find_marker(content, <<"TITLE:", "TITRE:">>)
        s == Find(content, "SUMMARY:")
    IN  \/ t = 0
        \/ s = 0
        \/ s < t
        \/ \A i \in (t + 1)..(s - 1) : content[i] = "_"
        \/ \A i \in (s + 1)..Len(content) : content[i] = "_"

\* C21: when the refinement call fails or its reply lacks the TITLE:/TITRE:
\* or the SUMMARY marker, has them out of order or delimits an empty field,
\* the news_card carries the original personalized headline and summary.
C21_FallbackToOriginal ==
    \A i \in DOMAIN dg.log :
       (~dg.log[i].resp.ok \/ Unusable(dg.log[i].resp.content))
          => /\ dg.log[i].card.title = Original
             /\ dg.log[i].card.summary = Original

\* Events of the given types sent on the channel so far.
Sent(types) == {i \in DOMAIN chan : chan[i].type \in types}

PastView == {i \in DOMAIN dg.log : i < Len(dg.log) \/ dg.pc # "view"}

\* C23: for every news_card emitted in a session a View (user_id,
\* article_id, session_id) is recorded right after the card and before the
\* next card; the session records no View for an article whose card it did
\* not emit.
C23_ViewAfterEachCard ==
    /\ \A i \in PastView :
          <<dg.user_id, dg.log[i].article_id, ChatSession>> \in user_article_views
    /\ \A v \in user_article_views :
          v[3] = ChatSession
             => \E i \in DOMAIN dg.log : dg.log[i].article_id = v[2]

\* The weight of a rating in update_user_vector_from_interaction, in tenths.
RateWeight == 20

\* The rate events the handler is done with.
Rated == {i \in DOMAIN chat.turns : chat.turns[i].msg.type = "rate"}

\* C24: a rate event {article_id, rating} updates the rating of the user's
\* View row for the article and then runs the interest-vector update for
\* (user, article) with weight 2.0.
C24_RateFeedsVector ==
    \A i \in Rated :
       LET m == chat.turns[i].msg
       IN  /\ (chat.turns[i].stored /\ ~ViewsUnique(chat.user_id, m.article_id))
                 => ratings[<<chat.user_id, m.article_id>>] = m.rating
           /\ \E k \in DOMAIN vector_updates :
                 vector_updates[k] = [user_id |-> chat.user_id,
                                      article_id |-> m.article_id,
                                      weight |-> RateWeight]

\* Chat messages whose LLM call failed.
FailedTurns == {i \in DOMAIN chat.turns : chat.turns[i].llm = "failed"}

\* C25: when the LLM call for a chat message fails the server emits an
\* apology for that turn and the connection stays open: the handler ends
\* only on the client's close frame, and every later chat message that is
\* stored is answered.
C25_ApologyKeepsOpen ==
    /\ \A i \in FailedTurns :
          /\ chat.turns[i].reply = "apology"
          /\ \A j \in DOMAIN chat.turns :
                (j > i /\ chat.turns[j].msg.type = "message" /\ chat.turns[j].stored)
                   => chat.turns[j].reply \in {"answer", "apology"}
    /\ (chat.pc = "closed" /\ chat.received > 0) => chat.cur.type = "close"
    /\ (chat.pc = "store_reply" /\ chat.llm = "failed") => chat.response = "apology"

C25_Witness ==
    /\ Len(chat.turns) = 2
    /\ chat.turns[1].llm = "failed"
    /\ chat.turns[2].reply = "answer"
    /\ \E i \in DOMAIN chan : chan[i] = Event("message", "apology")
    /\ \E i \in DOMAIN chat_messages :
          /\ chat_messages[i].message = "apology"
          /\ i + 2 \in DOMAIN chat_messages
          /\ chat_messages[i + 2].message = "answer"

\* C26: within one connection the server events of the digest task and of
\* the chat loop reach the client in exactly the order in which they were
\* enqueued on the channel, and only the forwarding task writes to the sink.
C26_SingleWriterOrder ==
    /\ Len(fw.written) <= Len(chan)
    /\ \A i \in DOMAIN fw.written :
          /\ fw.written[i].msg = chan[i]
          /\ fw.written[i].by = "forward"

C26_Witness ==
    \E i, j, k \in DOMAIN fw.written :
       /\ i < j /\ j < k
       /\ fw.written[i].msg.type = "news_card"
       /\ fw.written[j].msg = Event("message", "answer")
       /\ fw.written[k].msg.type = "news_card"

\* ------------------------------------------------------------------------
\* Press review
\* ------------------------------------------------------------------------
\* C27 as stated: the words of a digest are at most target_words + 200, or
\* the digest contains exactly 3 articles.
C27_Original ==
    pr.pc = "done"
       => \/ pr.current_words <= pr.target_words + OvershootWords
          \/ pr.article_count = 3

\* C27: for every digest of generate_press_review the word count of the
\* included articles is at most target_words + 200, or the digest contains
\* at most 3 articles.
C27_Amended ==
    pr.pc \in {"loop", "done"}
       => \/ pr.current_words <= pr.target_words + OvershootWords
          \/ pr.article_count <= MinReviewArticles

C27_Witness ==
    /\ pr.pc = "done"
    /\ pr.article_count = 4
    /\ pr.current_words > pr.target_words
    /\ pr.scored = << >>

\* ------------------------------------------------------------------------
\* Shutdown
\* ------------------------------------------------------------------------
\* C28: after the shutdown signal is raised the worker loop exits without
\* starting another tick, whether the signal arrives during the sleep
\* between ticks or during a tick: no sleep ends in a new tick after the
\* signal, and the loop has exited when main's wait for the worker ends.
C28_WorkerExitsOnShutdown ==
    [][/\ sd.raised => ~(worker.pc = "tick_end" /\ worker'.pc = "select")
       /\ sd'.main = "done" => worker'.pc = "exited"]_vars

\* ------------------------------------------------------------------------
\* C29: for a single article the stages run strictly in the order
\* fetch/store < summarize < classify < personalize, each stage starting
\* only after the previous one has finished, and no two stages of the same
\* article ever run concurrently.
\* ------------------------------------------------------------------------
\* The steps of process_single_article between the two job updates, in the
\* order of the code: read the stored content, summarize and classify,
\* store the summary, mark the article processed.
StageRank(pc) ==
    CASE pc = "fetch" -> 1
      [] pc = "summarize" -> 2
      [] pc = "store" -> 3
      [] pc = "mark_processed" -> 4
      [] OTHER -> 0

InStage(b, a) == proc[b].article_id = a /\ StageRank(proc[b].pc) > 0

StagesOverlap(a) ==
    \E b1, b2 \in Batches : b1 # b2 /\ InStage(b1, a) /\ InStage(b2, a)

StagesAdvance ==
    \A b \in Batches :
       (/\ StageRank(proc[b].pc) > 0
        /\ StageRank(proc'[b].pc) > 0
        /\ proc'[b].job_id = proc[b].job_id)
       => StageRank(proc'[b].pc) >= StageRank(proc[b].pc)

C29_StagesNeverOverlap ==
    [][/\ StagesAdvance
       /\ \A a \in ArticleIds : ~StagesOverlap(a)']_vars

\* ------------------------------------------------------------------------
\* C30: batch_process_articles attempts every article id of its input
\* exactly once, in input order: a failure on one article is logged and
\* absorbed, all later articles are still processed, and the returned
\* count equals the number of articles whose processing succeeded.
\* ------------------------------------------------------------------------
Succeeded(st) == {i \in DOMAIN st.attempted : st.attempted[i].ret = "ok"}

AttemptedInOrder(st) ==
    LET n == Len(st.attempted)
    IN  /\ n <= Len(st.input)
        /\ \A i \in 1..n : st.attempted[i].article_id = st.input[i]
        /\ st.pc \notin {"idle", "done"} =>
              /\ n < Len(st.input)
              /\ st.article_id = st.input[n + 1]
        /\ st.pc = "done" => n = Len(st.input)

C30_EveryIdAttemptedOnce ==
    \A b \in Batches :
       /\ AttemptedInOrder(proc[b])
       /\ proc[b].processed_count = Cardinality(Succeeded(proc[b]))

\* A batch of two articles has returned 1: the first article failed and the
\* second was still processed.
C30_Witness ==
    \E b \in Batches :
       /\ proc[b].pc = "done"
       /\ Len(proc[b].input) = 2
       /\ proc[b].attempted[1].ret = "err"
       /\ proc[b].attempted[2].ret = "ok"
       /\ proc[b].processed_count = 1

\* ------------------------------------------------------------------------
\* C31: RemoteLlmProvider.generate returns an error, never a response, for
\* every non-2xx HTTP status (the error carries the status code) and when
\* no response arrives within the request's timeout; it sends exactly one
\* HTTP request per call (no retry).
\* ------------------------------------------------------------------------
\* The whole response, status line and body, was there before the deadline.
ArrivedInTime(st) ==
    /\ st.head.arrives
    /\ st.body.arrives
    /\ st.body.t < st.timeout

C31_ErrorOnStatusOrTimeout ==
    /\ rp.requests = rp.calls
    /\ rp.pc = "returned" =>
          /\ (rp.status # 0 /\ ~is_success(rp.status)) =>
                (rp.result.kind = "err" /\ rp.result.status = rp.status)
          /\ ~ArrivedInTime(rp) => rp.result.kind = "err"

\* ------------------------------------------------------------------------
\* C32: for every input text, extract_json_from_text returns the trimmed
\* content of the first json-tagged fence if that fence is closed, otherwise
\* the trimmed content of the first plain three-backtick fence if closed, otherwise the
\* substring from the first '{' to the last '}' when both exist, otherwise
\* None; it returns a value (does not panic) for every input, including one
\* in which the last '}' comes before the first '{'.
\* ------------------------------------------------------------------------
IsFence(t) == t \in {"FENCE", "FENCEjson"}

\* The fence at token i is closed: three backticks follow it.
FenceClosed(text, i) ==
    i # 0 /\ \E j \in (i + 1)..Len(text) : IsFence(text[j])

\* What stands between the fence at token i and the backticks closing it.
FenceContent(text, i) ==
    LET j == CHOOSE j \in (i + 1)..Len(text) :
                /\ IsFence(text[j])
                /\ \A k \in (i + 1)..(j - 1) : ~IsFence(text[k])
    IN  Trim(SubSeq(text, i + 1, j - 1))

\* The statement leaves the value open when the last '}' comes before the
\* first '{'.
BracesInOrder(text) == Find(text, "{") <= RFind(text, "}")

Described(text) ==
    IF FenceClosed(text, Find(text, "FENCEjson"))
    THEN Some(FenceContent(text, Find(text, "FENCEjson")))
    ELSE IF FenceClosed(text, Find(text, "FENCE"))
    THEN Some(FenceContent(text, Find(text, "FENCE")))
    ELSE IF Find(text, "{") # 0 /\ RFind(text, "}") # 0
    THEN Some(SubSeq(text, Find(text, "{"), RFind(text, "}")))
    ELSE None

DescribedValue ==
    (\/ FenceClosed(ej.text, Find(ej.text, "FENCEjson"))
     \/ FenceClosed(ej.text, Find(ej.text, "FENCE"))
     \/ BracesInOrder(ej.text))
    => ej.result = Described(ej.text)

C32_ExtractJsonNeverPanics ==
    /\ ej.result.kind # "panic"
    /\ DescribedValue

\* ------------------------------------------------------------------------
\* C33: in generate_press_review, for two candidates that are identical
\* (same feed and half-life, same relevance, same vectors) except for
\* first_seen_at, the candidate with the newer first_seen_at gets the
\* strictly higher final score.
\* ------------------------------------------------------------------------
SameButFirstSeen(a, b) ==
    /\ a.relevance_score = b.relevance_score
    /\ a.semantic_similarity = b.semantic_similarity
    /\ a.created_at = b.created_at

C33_NewerScoresHigher ==
    \A i, j \in DOMAIN sc.rows :
       (/\ SameButFirstSeen(sc.rows[i], sc.rows[j])
        /\ sc.rows[i].first_seen_at > sc.rows[j].first_seen_at)
       => sc.scored[i] > sc.scored[j]

\* ------------------------------------------------------------------------
\* C34: update_user_vector_from_interaction(user, article, weight): when
\* the user has no stored vector, the user's vector becomes exactly the
\* article vector A; when the user has a vector U, it becomes the
\* component-wise blend (1 - alpha) U + alpha A with alpha = 0.1 weight over
\* all components of U, so the stored vector keeps the dimension of U even
\* when A has a different length; when the article has no vector, the
\* user's vector is left unchanged.
\* ------------------------------------------------------------------------
BlendOfAll(new, U, A, weight) ==
    /\ Len(new) = Len(U)
    /\ \A i \in DOMAIN U \cap DOMAIN A : new[i] = Blend(U[i], A[i], weight)

C34_VectorUpdate ==
    uv.calls > 0 =>
       CASE uv.article_vec.kind = "none" -> uv.vec_users = uv.user_vec
         [] uv.user_vec.kind = "none" -> uv.vec_users = uv.article_vec
         [] OTHER -> /\ uv.vec_users.kind = "some"
                     /\ BlendOfAll(uv.vec_users.value, uv.user_vec.value,
                                   uv.article_vec.value, uv.weight)

\* The same without the dimension of the stored vector.
BlendWhereBothDefined ==
    (uv.calls > 0 /\ uv.article_vec.kind = "some" /\ uv.user_vec.kind = "some")
    => \A i \in DOMAIN uv.vec_users.value :
          uv.vec_users.value[i] =
             Blend(uv.user_vec.value[i], uv.article_vec.value[i], uv.weight)

\* ------------------------------------------------------------------------
\* C35: an article is marked viewed only if its news_card was sent while
\* the connection was still open: after the client disconnects during
\* digest streaming, the background digest task of that session records no
\* further View rows.
\* ------------------------------------------------------------------------
\* The connection's future has left its loop (Close frame or stream error),
\* or the forwarding task has failed to write to the sink.
Disconnected == chat.pc = "closed" \/ fw.pc = "stopped"

C35_NoViewAfterDisconnect ==
    [][Disconnected => user_article_views' \subseteq user_article_views]_vars

\* ------------------------------------------------------------------------
\* C36: an article is emitted as a news_card to a given user at most once
\* across all of that user's sessions, including when two sessions of the
\* same user run their digest concurrently.
\* ------------------------------------------------------------------------
C36_CardAtMostOncePerUser ==
    \A s1, s2 \in Sessions :
       \A i \in DOMAIN ws[s1].sent, j \in DOMAIN ws[s2].sent :
          (/\ ws[s1].user_id = ws[s2].user_id
           /\ ws[s1].sent[i] = ws[s2].sent[j])
          => (s1 = s2 /\ i = j)

\* ------------------------------------------------------------------------
\* C37: a digest produced by generate_press_review never contains the same
\* article twice, including when the article occurs in several feeds the
\* user is subscribed to.
\* ------------------------------------------------------------------------
C37_NoArticleTwice ==
    \A i, j \in DOMAIN pr.digest : pr.digest[i] = pr.digest[j] => i = j

\* ------------------------------------------------------------------------
\* C38: each article gets at most one vector and is embedded at most once:
\* embedding tasks spawned on successive scheduler ticks may overlap, yet
\* none of them inserts a vector for an article that already has one or is
\* concurrently getting one, and no task abandons the rest of its batch
\* because of a duplicate insert.
\* ------------------------------------------------------------------------
C38_OneVectorPerArticle ==
    /\ \A a \in ArticleIds :
          /\ emb.vec_articles[a] <= 1
          /\ emb.embedded[a] <= 1
    /\ \A t \in EmbTasks : emb.tasks[t].ret # "duplicate"

\* ------------------------------------------------------------------------
\* C39: every newly ingested article eventually leaves 'pending' without
\* any manual POST /process-pending: once store_feed_items has inserted it
\* in a scheduler tick with an LLM provider configured, it is dispatched
\* for processing and eventually has processing_status 'completed',
\* whether the LLM calls succeed or fail and whatever the length of its
\* content.
\* ------------------------------------------------------------------------
C39_EventuallyCompleted ==
    \A a \in ArticleIds :
       Dispatched(a) ~> (processing_status[a] = "completed")

====
